---- MODULE Spec2Model ----
(***************************************************************************)
(* r2a: ROS 2 message types to Arrow schemas and row builders.             *)
(*                                                                         *)
(* build.rs discovers the record types (visit_item_struct), generates for  *)
(* every record type the schema functions X_Schema() and                   *)
(* X_FlatSchema(include_self_struct) (generate_arrow_schema_fields) and    *)
(* the row builder X_RowBuilder with new / add_row / add_raw_row /         *)
(* to_arc_arrays (generate_arrow_rowbuilders,                              *)
(* generate_arrow_flat_rowbuilders).  The generated functions are modelled *)
(* as tables of tokens that are evaluated when they are called.            *)
(***************************************************************************)
EXTENDS Integers, Sequences, FiniteSets, TLC

\* ------------------------------------------------------------------------
\* Bounds of the model
\* ------------------------------------------------------------------------
\* largest number of declared fields of a record type of the registry family
MaxFields == 2

\* longest projection picked field by field
MaxProj == 2

\* most rows added to one batch
MaxRows == 2

\* most calls entered on a row builder two callers share
MaxCalls == 3

\* ------------------------------------------------------------------------
\* Strings
\* ------------------------------------------------------------------------
\* str::find(pat): the position of the first match, 0 when there is none
find(s, pat) ==
    LET hits == {n \in 1..(Len(s) - Len(pat) + 1) :
                    SubSeq(s, n, n + Len(pat) - 1) = pat}
    IN  IF hits = {} THEN 0
        ELSE CHOOSE n \in hits : \A m \in hits : n <= m

RECURSIVE replace(_, _, _)
\* str::replace(from, to): every non-overlapping match, left to right
replace(s, from, to) ==
    LET n == find(s, from)
    IN  IF n = 0 THEN s
        ELSE SubSeq(s, 1, n - 1) \o to
                \o replace(SubSeq(s, n + Len(from), Len(s)), from, to)

starts_with(s, prefix) ==
    Len(s) >= Len(prefix) /\ SubSeq(s, 1, Len(prefix)) = prefix

\* format!("{}{}", original_name, suffix).replace("::", "_").replace('/', "_")
create_name(original_name, suffix) ==
    replace(replace(original_name \o suffix, "::", "_"), "/", "_")

\* &typ[4..typ.len() - 1] : the T of "Vec<T>"
vec_element(typ) == SubSeq(typ, 5, Len(typ) - 1)

RECURSIVE SeqToSet(_)
SeqToSet(s) == IF s = <<>> THEN {} ELSE {Head(s)} \cup SeqToSet(Tail(s))

RECURSIVE Flatten(_)
\* concatenation of a sequence of sequences (Vec::append in a loop)
Flatten(ss) == IF ss = <<>> THEN <<>> ELSE Head(ss) \o Flatten(Tail(ss))

\* ------------------------------------------------------------------------
\* Record types (ROSStruct, ROSField) and the two registry maps
\* ------------------------------------------------------------------------
ROSField(name, native_type) == [name |-> name, native_type |-> native_type]

ROSStruct(packaged_name, schema_name, fields) ==
    [packaged_name |-> packaged_name, schema_name |-> schema_name,
     fields |-> fields]

\* BTreeMap::insert
MapInsert(m, key, val) ==
    [k \in DOMAIN m \cup {key} |-> IF k = key THEN val ELSE m[k]]

EmptyMap == [k \in {} |-> 0]

VARIABLES
    items,              \* the struct items of the parsed r2r source files
    structs_by_schema,  \* BTreeMap schema name -> ROSStruct
    structs_by_type,    \* BTreeMap packaged type name -> ROSStruct
    phase,              \* "parsed" | "discovered" | "generated" | "panicked"
    schema_fns,         \* generated schema functions: identifier -> body
    compiled,           \* the field lists of the build before this one, if any
    lookup              \* what the last lookup by schema identifier returned

schemaVars ==
    <<items, structs_by_schema, structs_by_type, phase, schema_fns, compiled,
      lookup>>

\* A struct item of valid_structs as the visitor sees it: the module stack,
\* the file name it was read from, its identifier and its fields.
Item(file, module, ident, fields) ==
    [file |-> file, module |-> module, ident |-> ident, fields |-> fields]

\* StructVisitor::visit_item_struct: both maps receive the struct
visit_item_struct(maps, i) ==
    LET package_name == i.module \o "::" \o i.ident
        schema_name  == replace(i.file \o "/msg/" \o "{}", "{}", i.ident)
        my_struct    == ROSStruct(package_name, schema_name, i.fields)
    IN  [by_schema |-> MapInsert(maps.by_schema, schema_name, my_struct),
         by_type   |-> MapInsert(maps.by_type, package_name, my_struct)]

RECURSIVE visit_file(_, _)
visit_file(maps, its) ==
    IF its = <<>> THEN maps
    ELSE visit_file(visit_item_struct(maps, Head(its)), Tail(its))

find_structs_by_schema_and_type(its) ==
    visit_file([by_schema |-> EmptyMap, by_type |-> EmptyMap], its)

\* ------------------------------------------------------------------------
\* Arrow data types and fields (values) and the tokens build.rs emits
\* ------------------------------------------------------------------------
Field(name, data_type, nullable) ==
    [name |-> name, data_type |-> data_type, nullable |-> nullable]

Scalar(k) == [k |-> k]
LargeBinary == [k |-> "LargeBinary"]
LargeList(item) == [k |-> "LargeList", item |-> item]
Struct(fields) == [k |-> "Struct", fields |-> fields]

\* token of DataType::Struct(Fields::from(fn(args))): resolved when called
StructFrom(fn, args) == [k |-> "StructFrom", fn |-> fn, args |-> args]

\* what a panic!() or a failed unwrap() leaves in place of a token
PanicTok == [name |-> "", data_type |-> [k |-> "panic"], nullable |-> FALSE]

\* the native types the schema compiler routes to the type mapper
\* (first match arm of generate_arrow_schema_fields)
MapperArm ==
    {"bool", "str", "char", "()", "i8", "i16", "i32", "i64", "i128", "isize",
     "u8", "u16", "u32", "u64", "u128", "usize", "f32", "f64",
     "std::string::String",
     "Vec<bool>", "Vec<str>", "Vec<char>", "Vec<()>", "Vec<i8>", "Vec<i16>",
     "Vec<i32>", "Vec<i64>", "Vec<i128>", "Vec<isize>", "Vec<u8>",
     "Vec<u16>", "Vec<u32>", "Vec<u64>", "Vec<u128>", "Vec<usize>",
     "Vec<f32>", "Vec<f64>", "Vec<std::string::String>"}

\* inner match of the Vec branch of the type mapper
vec_item_type(typ) ==
    CASE typ = "Vec<bool>" -> Scalar("Boolean")
      [] typ \in {"Vec<str>", "Vec<std::string::String>"} -> Scalar("Utf8")
      [] typ = "Vec<char>" -> Scalar("Utf8")
      [] typ = "Vec<i8>" -> Scalar("Int8")
      [] typ = "Vec<i16>" -> Scalar("Int16")
      [] typ = "Vec<i32>" -> Scalar("Int32")
      [] typ = "Vec<i64>" -> Scalar("Int64")
      [] typ = "Vec<i128>" -> Scalar("Int64")
      [] typ = "Vec<isize>" -> Scalar("Int64")
      [] typ = "Vec<u16>" -> Scalar("UInt16")
      [] typ = "Vec<u32>" -> Scalar("UInt32")
      [] typ = "Vec<u64>" -> Scalar("UInt64")
      [] typ = "Vec<u128>" -> Scalar("UInt64")
      [] typ = "Vec<usize>" -> Scalar("UInt64")
      [] typ = "Vec<f32>" -> Scalar("Float32")
      [] typ = "Vec<f64>" -> Scalar("Float64")
      [] OTHER -> Scalar("panic")

\* inner match of the scalar branch of the type mapper
scalar_type(typ) ==
    CASE typ = "bool" -> Scalar("Boolean")
      [] typ \in {"str", "std::string::String", "char"} -> Scalar("Utf8")
      [] typ = "()" -> Scalar("Null")
      [] typ = "i8" -> Scalar("Int8")
      [] typ = "i16" -> Scalar("Int16")
      [] typ = "i32" -> Scalar("Int32")
      [] typ = "i64" -> Scalar("Int64")
      [] typ = "i128" -> Scalar("Int64")
      [] typ = "isize" -> Scalar("Int64")
      [] typ = "u8" -> Scalar("UInt8")
      [] typ = "u16" -> Scalar("UInt16")
      [] typ = "u32" -> Scalar("UInt32")
      [] typ = "u64" -> Scalar("UInt64")
      [] typ \in {"u128", "usize"} -> Scalar("UInt64")
      [] typ = "f32" -> Scalar("Float32")
      [] typ = "f64" -> Scalar("Float64")
      [] OTHER -> Scalar("panic")

\* the type mapper with a slip: no branch of its own for the byte blob,
\* which becomes a list of UInt8 like any other array of integers
mapper_blob_as_list(typ, field_name, nullable) ==
    IF starts_with(typ, "Vec")
    THEN LET type_token == IF typ = "Vec<u8>" THEN Scalar("UInt8")
                           ELSE vec_item_type(typ)
         IN  IF type_token.k = "panic" THEN PanicTok
             ELSE Field(field_name,
                        LargeList(Field("item", type_token, nullable)),
                        nullable)
    ELSE LET type_token == scalar_type(typ)
         IN  IF type_token.k = "panic" THEN PanicTok
             ELSE Field(field_name, type_token, nullable)

rust_type_to_arrow_type_token_stream(typ, field_name, nullable) ==
    IF typ = "Vec<u8>" THEN Field(field_name, LargeBinary, nullable)
    ELSE IF starts_with(typ, "Vec")
    THEN LET type_token == vec_item_type(typ)
         IN  IF type_token.k = "panic" THEN PanicTok
             ELSE Field(field_name,
                        LargeList(Field("item", type_token, nullable)),
                        nullable)
    ELSE LET type_token == scalar_type(typ)
         IN  IF type_token.k = "panic" THEN PanicTok
             ELSE Field(field_name, type_token, nullable)

\* ------------------------------------------------------------------------
\* Schema compiler
\* ------------------------------------------------------------------------
RECURSIVE schema_fields_with_slip(_, _, _, _, _, _, _)
\* the schema compiler with one slip of the pen:
\*   "wrap"   a record-typed field is wrapped in a struct in flattened mode too
\*   "skip"   a record-typed field is not expanded in flattened mode
\*   "dot"    the flattened name is joined with '.' like the logical path
\*   "splice" an array-of-record field is spliced in flattened mode
\*   "child"  the children of a nested struct are its flattened compilation
\*   "again"  a build run after the first lists the fields last to first
\*   "lenient" a field of an unregistered record type is left out
schema_fields_with_slip(slip, schema, by_schema, by_type, parent_json_path, parent_field, flat) ==
    IF schema \notin DOMAIN by_schema THEN <<PanicTok>>
    ELSE
    LET ros_struct == by_schema[schema]
        n == Len(ros_struct.fields)
        at(j) == IF slip = "again" /\ phase = "generated" THEN n + 1 - j
                 ELSE j
        sep == IF slip = "dot" THEN "." ELSE "_"
        one(field) ==
          LET field_name == IF parent_field /= ""
                            THEN parent_field \o sep \o field.name
                            ELSE field.name
              json_path  == IF parent_json_path /= ""
                            THEN parent_json_path \o "." \o field.name
                            ELSE field.name
              native     == field.native_type
              splice(typ) ==
                  schema_fields_with_slip(slip, by_type[typ].schema_name,
                      by_schema, by_type, json_path, field_name, flat)
          IN  IF native \in MapperArm
              THEN <<rust_type_to_arrow_type_token_stream(native, field_name,
                                                          TRUE)>>
              ELSE IF ("r2r::" \o (IF starts_with(native, "Vec")
                                    THEN vec_element(native) ELSE native))
                          \notin DOMAIN by_type
              THEN IF slip = "lenient" THEN <<>> ELSE <<PanicTok>>
              ELSE IF (~flat \/ slip = "wrap") /\ ~starts_with(native, "Vec")
              THEN LET typ == "r2r::" \o native
                   IN  IF slip = "child"
                       THEN <<Field(field_name,
                                StructFrom(create_name(
                                    by_type[typ].packaged_name, "_FlatSchema"),
                                    <<FALSE>>),
                                TRUE)>>
                       ELSE <<Field(field_name,
                                StructFrom(create_name(
                                    by_type[typ].packaged_name, "_Schema"),
                                    <<>>),
                                TRUE)>>
              ELSE IF flat /\ ~starts_with(native, "Vec")
              THEN IF slip = "skip" THEN <<>> ELSE splice("r2r::" \o native)
              ELSE LET typ == "r2r::" \o vec_element(native)
                       suffix == IF flat THEN "_FlatSchema" ELSE "_Schema"
                       fn == create_name(by_type[typ].packaged_name, suffix)
                   IN  IF flat /\ slip = "splice" THEN splice(typ)
                       ELSE <<Field(field_name,
                                LargeList(Field("item",
                                    StructFrom(fn, IF flat THEN <<FALSE>>
                                                   ELSE <<>>),
                                    TRUE)),
                                TRUE)>>
    IN  Flatten([j \in 1..n |-> one(ros_struct.fields[at(j)])])

schema_fields_wrap(schema, by_schema, by_type, pjp, pf, flat) ==
    schema_fields_with_slip("wrap", schema, by_schema, by_type, pjp, pf, flat)

schema_fields_skip(schema, by_schema, by_type, pjp, pf, flat) ==
    schema_fields_with_slip("skip", schema, by_schema, by_type, pjp, pf, flat)

schema_fields_dot(schema, by_schema, by_type, pjp, pf, flat) ==
    schema_fields_with_slip("dot", schema, by_schema, by_type, pjp, pf, flat)

schema_fields_splice(schema, by_schema, by_type, pjp, pf, flat) ==
    schema_fields_with_slip("splice", schema, by_schema, by_type, pjp, pf, flat)

schema_fields_child(schema, by_schema, by_type, pjp, pf, flat) ==
    schema_fields_with_slip("child", schema, by_schema, by_type, pjp, pf, flat)

schema_fields_lenient(schema, by_schema, by_type, pjp, pf, flat) ==
    schema_fields_with_slip("lenient", schema, by_schema, by_type, pjp, pf, flat)

schema_fields_again(schema, by_schema, by_type, pjp, pf, flat) ==
    schema_fields_with_slip("again", schema, by_schema, by_type, pjp, pf, flat)

RECURSIVE generate_arrow_schema_fields(_, _, _, _, _, _)
\* the tokens of the fields of one record type, in declaration order;
\* by_schema and by_type are the two registry maps
generate_arrow_schema_fields(schema, by_schema, by_type, parent_json_path, parent_field, flat) ==
    IF schema \notin DOMAIN by_schema THEN <<PanicTok>>
    ELSE
    LET ros_struct == by_schema[schema]
        one(field) ==
          LET field_name == IF parent_field /= ""
                            THEN parent_field \o "_" \o field.name
                            ELSE field.name
              json_path  == IF parent_json_path /= ""
                            THEN parent_json_path \o "." \o field.name
                            ELSE field.name
              native     == field.native_type
          IN  IF native \in MapperArm
              THEN <<rust_type_to_arrow_type_token_stream(native, field_name,
                                                          TRUE)>>
              ELSE IF ~flat /\ ~starts_with(native, "Vec")
              THEN LET typ == "r2r::" \o native
                   IN  IF typ \notin DOMAIN by_type THEN <<PanicTok>>
                       ELSE <<Field(field_name,
                                StructFrom(create_name(
                                    by_type[typ].packaged_name, "_Schema"),
                                    <<>>),
                                TRUE)>>
              ELSE IF flat /\ ~starts_with(native, "Vec")
              THEN LET typ == "r2r::" \o native
                   IN  IF typ \notin DOMAIN by_type THEN <<PanicTok>>
                       ELSE generate_arrow_schema_fields(
                                by_type[typ].schema_name, by_schema, by_type,
                                json_path, field_name, flat)
              ELSE LET typ == "r2r::" \o vec_element(native)
                   IN  IF typ \notin DOMAIN by_type THEN <<PanicTok>>
                       ELSE LET suffix == IF flat THEN "_FlatSchema"
                                          ELSE "_Schema"
                                fn == create_name(by_type[typ].packaged_name,
                                                  suffix)
                            IN  <<Field(field_name,
                                    LargeList(Field("item",
                                        StructFrom(fn, IF flat THEN <<FALSE>>
                                                       ELSE <<>>),
                                        TRUE)),
                                    TRUE)>>
    IN  Flatten([j \in 1..Len(ros_struct.fields) |-> one(ros_struct.fields[j])])

\* a generated schema function: its parameters, the tokens of its vec![...]
\* and, for X_FlatSchema, the function that supplies message_struct
SchemaFn(params, fields, self_struct) ==
    [params |-> params, fields |-> fields, self_struct |-> self_struct]

\* generate_flat_arrow_schema: one X_FlatSchema(include_self_struct) per
\* record type of structs_by_schema
generate_flat_arrow_schema(by_schema, by_type) ==
    LET ident == [s \in DOMAIN by_schema |->
                    create_name(by_schema[s].packaged_name, "_FlatSchema")]
        Of(id) == CHOOSE s \in DOMAIN by_schema : ident[s] = id
    IN  [id \in {ident[s] : s \in DOMAIN by_schema} |->
            SchemaFn(1,
                generate_arrow_schema_fields(by_schema[Of(id)].schema_name,
                    by_schema, by_type, "$", "", TRUE),
                create_name(by_schema[Of(id)].packaged_name, "_Schema"))]

\* generate_arrow_schema: one X_Schema() per record type of structs_by_schema
generate_arrow_schema(by_schema, by_type) ==
    LET ident == [s \in DOMAIN by_schema |->
                    create_name(by_schema[s].packaged_name, "_Schema")]
        Of(id) == CHOOSE s \in DOMAIN by_schema : ident[s] = id
    IN  [id \in {ident[s] : s \in DOMAIN by_schema} |->
            SchemaFn(0,
                generate_arrow_schema_fields(by_schema[Of(id)].schema_name,
                    by_schema, by_type, "$", "", FALSE),
                "")]

\* the functions written to generated_arrow_mappers.rs
generate_arrow_mappers(by_schema, by_type) ==
    LET f == generate_flat_arrow_schema(by_schema, by_type)
        n == generate_arrow_schema(by_schema, by_type)
    IN  n @@ f

\* some panic!() or unwrap() of the generator fired
Panicked(fns) ==
    \E f \in {fns[id] : id \in DOMAIN fns} : PanicTok \in SeqToSet(f.fields)

\* ------------------------------------------------------------------------
\* The generated schema functions, called
\* ------------------------------------------------------------------------
RECURSIVE CallSchemaFn(_, _)
RECURSIVE EvalType(_)
\* X_FlatSchema with a slip: message_struct built from the schema being
\* returned instead of from X_Schema()
CallSchemaFn_self(fn, args) ==
    LET f == schema_fns[fn]
        schema == [j \in 1..Len(f.fields) |->
                     Field(f.fields[j].name, EvalType(f.fields[j].data_type),
                           f.fields[j].nullable)]
    IN  IF f.params = 1 /\ args[1]
        THEN Append(schema, Field("message_struct", Struct(schema), TRUE))
        ELSE schema

\* a data type token, its function calls resolved
EvalType(dt) ==
    CASE dt.k = "StructFrom" -> Struct(CallSchemaFn(dt.fn, dt.args))
      [] dt.k = "LargeList" ->
            LargeList(Field(dt.item.name, EvalType(dt.item.data_type),
                            dt.item.nullable))
      [] OTHER -> dt

\* X_Schema() and X_FlatSchema(include_self_struct)
CallSchemaFn(fn, args) ==
    LET f == schema_fns[fn]
        schema == [j \in 1..Len(f.fields) |->
                     Field(f.fields[j].name, EvalType(f.fields[j].data_type),
                           f.fields[j].nullable)]
    IN  IF f.params = 1 /\ args[1]
        THEN Append(schema,
                    Field("message_struct",
                          Struct(CallSchemaFn(f.self_struct, <<>>)), TRUE))
        ELSE schema

\* the generated map_ros_schema_to_arrow_fields(ros_schema): one match arm
\* per schema name of structs_by_schema, and the arm `unknown`, which warns
\* and returns the descriptor of a binary column.  log is what it wrote
\* with log::warn!.
map_ros_schema_to_arrow_fields(ros_schema) ==
    IF ros_schema \in {structs_by_schema[s].schema_name :
                         s \in DOMAIN structs_by_schema}
    THEN LET ros_struct ==
                 structs_by_schema[CHOOSE s \in DOMAIN structs_by_schema :
                     structs_by_schema[s].schema_name = ros_schema]
         IN  [fields |-> CallSchemaFn(create_name(ros_struct.packaged_name,
                                                  "_Schema"), <<>>),
              log |-> <<>>]
    ELSE [fields |-> <<Field("binary_data", LargeBinary, TRUE)>>,
          log |-> <<ros_schema>>]

\* the generated map_ros_schema_to_flat_arrow_fields(ros_schema)
map_ros_schema_to_flat_arrow_fields(ros_schema) ==
    IF ros_schema \in {structs_by_schema[s].schema_name :
                         s \in DOMAIN structs_by_schema}
    THEN LET ros_struct ==
                 structs_by_schema[CHOOSE s \in DOMAIN structs_by_schema :
                     structs_by_schema[s].schema_name = ros_schema]
         IN  [fields |-> CallSchemaFn(create_name(ros_struct.packaged_name,
                                                  "_FlatSchema"), <<TRUE>>),
              log |-> <<>>]
    ELSE [fields |-> <<Field("binary_data", LargeBinary, TRUE)>>,
          log |-> <<ros_schema>>]

\* ArrowSupport::flat_arrow_fields of the record type packaged_name
flat_arrow_fields(packaged_name, include_msg_struct) ==
    CallSchemaFn(create_name(packaged_name, "_FlatSchema"),
                 <<include_msg_struct>>)

\* the generated arrow_fields() of the record type packaged_name: X_Schema()
X_Schema(packaged_name) ==
    CallSchemaFn(create_name(packaged_name, "_Schema"), <<>>)

\* ArrowSupport::arrow_fields(include_msg_struct) as the trait documents it:
\* with the flag the field message_struct, the whole message as a struct,
\* is included
arrow_fields(packaged_name, include_msg_struct) ==
    LET schema == X_Schema(packaged_name)
    IN  IF include_msg_struct
        THEN Append(schema, Field("message_struct", Struct(schema), TRUE))
        ELSE schema

\* ------------------------------------------------------------------------
\* Row builder generator: the components of one field (ArrowSchemaField)
\* ------------------------------------------------------------------------
\* second match arm of generate_arrow_schema_typesafe_parser_components
PrimitiveArm ==
    {"bool", "str", "char", "()", "i8", "i16", "i32", "i64", "i128", "isize",
     "u8", "u16", "u32", "u64", "u128", "usize", "f32", "f64",
     "std::string::String"}

PrimitiveVectorArm ==
    {"Vec<bool>", "Vec<str>", "Vec<char>", "Vec<()>", "Vec<i8>", "Vec<i16>",
     "Vec<i32>", "Vec<i64>", "Vec<i128>", "Vec<isize>", "Vec<u8>",
     "Vec<u16>", "Vec<u32>", "Vec<u64>", "Vec<u128>", "Vec<usize>",
     "Vec<f32>", "Vec<f64>", "Vec<std::string::String>"}

\* primitive_builder_components with a slip: u32 gets the 64 bit builder
primitive_builder_wide(typ) ==
    CASE typ = "i32" -> "Int32Builder"
      [] typ \in {"str", "std::string::String"} -> "StringBuilder"
      [] typ = "f32" -> "Float32Builder"
      [] OTHER -> "UInt64Builder"

\* the builder type primitive_builder_components picks for a scalar
primitive_builder(typ) ==
    CASE typ = "bool" -> "BooleanBuilder"
      [] typ \in {"str", "std::string::String"} -> "StringBuilder"
      [] typ = "char" -> "StringBuilder"
      [] typ = "()" -> "NullBuilder"
      [] typ = "i8" -> "Int8Builder"
      [] typ = "i16" -> "Int16Builder"
      [] typ = "i32" -> "Int32Builder"
      [] typ = "i64" -> "Int64Builder"
      [] typ \in {"i128", "isize"} -> "Int64Builder"
      [] typ = "u8" -> "UInt8Builder"
      [] typ = "u16" -> "UInt16Builder"
      [] typ = "u32" -> "UInt32Builder"
      [] typ = "u64" -> "UInt64Builder"
      [] typ \in {"u128", "usize"} -> "UInt64Builder"
      [] typ = "f32" -> "Float32Builder"
      [] typ = "f64" -> "Float64Builder"
      [] OTHER -> "panic"

\* the item builder primitive_vector_builder_components picks for a vector
primitive_vector_item_builder(typ) ==
    CASE typ = "Vec<bool>" -> "BooleanBuilder"
      [] typ \in {"Vec<str>", "Vec<std::string::String>"} -> "StringBuilder"
      [] typ = "Vec<char>" -> "StringBuilder"
      [] typ = "Vec<i8>" -> "Int8Builder"
      [] typ = "Vec<i16>" -> "Int16Builder"
      [] typ = "Vec<i32>" -> "Int32Builder"
      [] typ = "Vec<i64>" -> "Int64Builder"
      [] typ \in {"Vec<i128>", "Vec<isize>"} -> "Int64Builder"
      [] typ \in {"Vec<u128>", "Vec<usize>"} -> "UInt64Builder"
      [] typ = "Vec<u8>" -> "LargeBinaryBuilder"
      [] typ = "Vec<u16>" -> "UInt16Builder"
      [] typ = "Vec<u32>" -> "UInt32Builder"
      [] typ = "Vec<u64>" -> "UInt64Builder"
      [] typ = "Vec<f32>" -> "Float32Builder"
      [] typ = "Vec<f64>" -> "Float64Builder"
      [] OTHER -> "panic"

RECURSIVE split(_, _)
\* the segments of a dotted path
split(s, sep) ==
    LET n == find(s, sep)
    IN  IF n = 0 THEN <<s>>
        ELSE <<SubSeq(s, 1, n - 1)>>
                \o split(SubSeq(s, n + Len(sep), Len(s)), sep)

\* FieldType
FieldType(tag, name) == [tag |-> tag, name |-> name]

\* rust_field_to_arrow_type_safe_token_stream: what the four generated code
\* fragments of a field are made of.  builder is the builder type of the
\* column ("panic" when the generator panics on typ); index is the child
\* slot the struct appender uses.
rust_field_to_arrow_type_safe_token_stream(field_name, field_path, typ, field_type, flat, index) ==
    [field_name |-> field_name,
     builder_field_name |-> create_name(field_name, ""),
     field_path |-> field_path,
     path_field_name |-> split(field_path, "."),
     type_schema_fn_ident |->
        IF field_type.tag \in {"Struct", "StructArray"}
        THEN create_name(field_type.name,
                         IF flat THEN "_FlatSchema" ELSE "_Schema")
        ELSE "",
     type_struct_builder_fn_ident |->
        IF field_type.tag \in {"Struct", "StructArray"}
        THEN create_name(field_type.name,
                         IF flat THEN "_FlatStructBuilder"
                         ELSE "_StructBuilder")
        ELSE "",
     typ |-> typ,
     field_type |-> field_type,
     flat |-> flat,
     index |-> index,
     builder |->
        CASE field_type.tag = "Struct" -> "StructBuilder"
          [] field_type.tag = "StructArray" -> "LargeListBuilder<StructBuilder>"
          [] field_type.tag = "PrimitiveVector" ->
                LET item == primitive_vector_item_builder(typ)
                IN  IF item \in {"panic", "LargeBinaryBuilder"} THEN item
                    ELSE "LargeListBuilder<" \o item \o ">"
          [] OTHER -> primitive_builder(typ)]

RECURSIVE generate_arrow_schema_typesafe_parser_components(_, _, _, _, _, _, _)
RECURSIVE parser_components_loop(_, _, _, _, _, _, _, _)
\* the for loop of generate_arrow_schema_typesafe_parser_components over the
\* fields from position j on; out.fields is the components pushed so far,
\* out.index the counter shared through &mut
parser_components_loop(fields, j, by_schema, by_type, parent_dotted_path, parent_field, out, flat) ==
    IF j > Len(fields) THEN out
    ELSE
    LET field == fields[j]
        field_name == IF parent_field /= ""
                      THEN parent_field \o "_" \o field.name
                      ELSE field.name
        dotted_path == IF parent_dotted_path /= ""
                       THEN parent_dotted_path \o "." \o field.name
                       ELSE field.name
        native == field.native_type
        single(typ, field_type) ==
            [fields |-> Append(out.fields,
                            rust_field_to_arrow_type_safe_token_stream(
                                field_name, dotted_path, typ, field_type,
                                flat, out.index)),
             index |-> out.index + 1]
        missing == [fields |-> Append(out.fields, [builder |-> "panic"]),
                    index |-> out.index]
    IN  parser_components_loop(fields, j + 1, by_schema, by_type,
            parent_dotted_path, parent_field,
            IF native \in PrimitiveArm
            THEN single(native, FieldType("Primitive", ""))
            ELSE IF native \in PrimitiveVectorArm
            THEN single(native, FieldType("PrimitiveVector", ""))
            ELSE IF flat /\ ~starts_with(native, "Vec")
            THEN LET t == "r2r::" \o native
                 IN  IF t \notin DOMAIN by_type THEN missing
                     ELSE generate_arrow_schema_typesafe_parser_components(
                              by_type[t].schema_name, by_schema, by_type,
                              dotted_path, field_name, out, flat)
            ELSE IF ~flat /\ ~starts_with(native, "Vec")
            THEN LET t == "r2r::" \o native
                 IN  IF t \notin DOMAIN by_type THEN missing
                     ELSE single(t, FieldType("Struct",
                              replace(by_type[t].packaged_name, "::", "_")))
            ELSE LET t == "r2r::" \o vec_element(native)
                 IN  IF t \notin DOMAIN by_type THEN missing
                     ELSE single(t, FieldType("StructArray",
                              replace(by_type[t].packaged_name, "::", "_"))),
            flat)

\* the components with a slip: the index counter starts again at 0 in a
\* record spliced into its parent
parser_components_restart(schema, by_schema, by_type, parent_dotted_path, parent_field, out, flat) ==
    IF schema \notin DOMAIN by_schema
    THEN [fields |-> Append(out.fields, [builder |-> "panic"]),
          index |-> out.index]
    ELSE LET inner == parser_components_loop(by_schema[schema].fields, 1,
                          by_schema, by_type, parent_dotted_path,
                          parent_field, [fields |-> <<>>, index |-> 0], flat)
         IN  [fields |-> out.fields \o inner.fields,
              index |-> out.index + inner.index]

\* the components of the fields of schema appended to out.fields, and the
\* value the index counter is left with
generate_arrow_schema_typesafe_parser_components(schema, by_schema, by_type, parent_dotted_path, parent_field, out, flat) ==
    IF schema \notin DOMAIN by_schema
    THEN [fields |-> Append(out.fields, [builder |-> "panic"]),
          index |-> out.index]
    ELSE parser_components_loop(by_schema[schema].fields, 1, by_schema,
             by_type, parent_dotted_path, parent_field, out, flat)

\* What one run of a row builder generator emits for the record type of
\* schema: the row builder's fields and the two struct appender functions.
RowBuilderCode(ros_struct, fields, flat_struct_fields, struct_fields) ==
    [type_name |-> ros_struct.packaged_name,
     fields |-> fields,
     flat_struct_builder_fn |->
        create_name(ros_struct.packaged_name, "_FlatStructBuilder"),
     flat_struct_builder_appends |-> flat_struct_fields,
     struct_builder_fn |->
        create_name(ros_struct.packaged_name, "_StructBuilder"),
     struct_builder_appends |-> struct_fields,
     struct_schema_fn |-> create_name(ros_struct.packaged_name, "_Schema")]

\* generate_arrow_rowbuilders: the row builders main() writes out (nested)
generate_arrow_rowbuilders(by_schema, by_type) ==
    [s \in DOMAIN by_schema |->
        LET fields == generate_arrow_schema_typesafe_parser_components(
                          by_schema[s].schema_name, by_schema, by_type,
                          "", "", [fields |-> <<>>, index |-> 0], FALSE).fields
        IN  RowBuilderCode(by_schema[s], fields, fields, fields)]

\* generate_arrow_flat_rowbuilders: the flattened row builders
generate_arrow_flat_rowbuilders(by_schema, by_type) ==
    [s \in DOMAIN by_schema |->
        LET fields == generate_arrow_schema_typesafe_parser_components(
                          by_schema[s].schema_name, by_schema, by_type,
                          "", "", [fields |-> <<>>, index |-> 0], TRUE).fields
            struct_fields ==
                generate_arrow_schema_typesafe_parser_components(
                    by_schema[s].schema_name, by_schema, by_type,
                    "", "", [fields |-> <<>>, index |-> 0], FALSE).fields
        IN  RowBuilderCode(by_schema[s], fields, fields, struct_fields)]

\* some panic!() or unwrap() of a row builder generator fired
BuilderPanicked(code) ==
    \E gen \in {code[s] : s \in DOMAIN code} :
        \E f \in SeqToSet(gen.fields) \cup SeqToSet(gen.struct_builder_appends) :
            f.builder = "panic"

\* ------------------------------------------------------------------------
\* arrow_array builders and arrays, as far as the generated code uses them
\* ------------------------------------------------------------------------
\* a builder that a panic (failed unwrap, index out of range) left behind
PanicB == [class |-> "panic"]

IsPanic(b) == b.class = "panic"

\* Option::None of a builder field
None == [class |-> "None"]

\* XBuilder::new() of the scalar, string, binary and null builders
PrimB(class) == [class |-> class, vals |-> <<>>, valid |-> <<>>]

\* LargeListBuilder::new(values)
ListB(class, values) ==
    [class |-> class, values |-> values, offsets |-> <<0>>, valid |-> <<>>]

\* the builder class arrow's make_builder picks for a scalar data type
builder_class(data_type) ==
    CASE data_type.k = "Utf8" -> "StringBuilder"
      [] OTHER -> data_type.k \o "Builder"

RECURSIVE make_builder(_)
\* StructBuilder::from_fields makes every child with make_builder: a list
\* child is a LargeListBuilder<Box<dyn ArrayBuilder>>
make_builder(data_type) ==
    CASE data_type.k = "Struct" ->
            [class |-> "StructBuilder", fields |-> data_type.fields,
             children |-> [j \in 1..Len(data_type.fields) |->
                             make_builder(data_type.fields[j].data_type)],
             valid |-> <<>>]
      [] data_type.k = "LargeList" ->
            ListB("LargeListBuilder<dyn>", make_builder(data_type.item.data_type))
      [] OTHER -> PrimB(builder_class(data_type))

\* StructBuilder::from_fields(fields, 0)
StructBuilder_from_fields(fields) == make_builder(Struct(fields))

\* ArrayBuilder::len
BuilderLen(b) == Len(b.valid)

\* the data type of the array a builder finishes to
RECURSIVE builder_data_type(_)
builder_data_type(b) ==
    CASE b.class = "StructBuilder" -> Struct(b.fields)
      [] starts_with(b.class, "LargeListBuilder") ->
            LargeList(Field("item", builder_data_type(b.values), TRUE))
      [] b.class = "StringBuilder" -> Scalar("Utf8")
      [] OTHER -> Scalar(SubSeq(b.class, 1, Len(b.class) - Len("Builder")))

RECURSIVE finish(_)
\* ArrayBuilder::finish, the array: StructBuilder::finish panics when a child
\* is not as long as the struct builder
finish(b) ==
    CASE b.class = "StructBuilder" ->
            LET children == [j \in 1..Len(b.children) |-> finish(b.children[j])]
            IN  IF \E j \in 1..Len(children) :
                       \/ IsPanic(children[j])
                       \/ Len(children[j].valid) /= Len(b.valid)
                THEN PanicB
                ELSE [class |-> "StructArray", data_type |-> Struct(b.fields),
                      children |-> children, valid |-> b.valid]
      [] starts_with(b.class, "LargeListBuilder") ->
            LET values == finish(b.values)
            IN  IF IsPanic(values) THEN PanicB
                ELSE [class |-> "LargeListArray",
                      data_type |-> builder_data_type(b),
                      values |-> values, offsets |-> b.offsets,
                      valid |-> b.valid]
      [] OTHER ->
            [class |-> "Array", data_type |-> builder_data_type(b),
             vals |-> b.vals, valid |-> b.valid]

\* finish with a slip: the builder keeps what it held
finish_keep(b) == b

RECURSIVE finish_reset(_)
\* ArrayBuilder::finish, the builder it leaves: empty, ready for a new batch
finish_reset(b) ==
    CASE b.class = "StructBuilder" ->
            [b EXCEPT !.children = [j \in 1..Len(b.children) |->
                                      finish_reset(b.children[j])],
                      !.valid = <<>>]
      [] starts_with(b.class, "LargeListBuilder") ->
            [b EXCEPT !.values = finish_reset(b.values), !.offsets = <<0>>,
                      !.valid = <<>>]
      [] OTHER -> [b EXCEPT !.vals = <<>>, !.valid = <<>>]

\* Array::len
ArrayLen(a) == Len(a.valid)

\* append_value with a slip: the row is appended twice
append_value_twice(b, v) ==
    [b EXCEPT !.vals = @ \o <<v, v>>, !.valid = @ \o <<TRUE, TRUE>>]

\* XBuilder::append_value(v)
append_value(b, v) ==
    [b EXCEPT !.vals = Append(b.vals, v), !.valid = Append(b.valid, TRUE)]

\* LargeListBuilder::append(true): the values appended so far close an entry
list_append(b) ==
    [b EXCEPT !.offsets = Append(b.offsets, BuilderLen(b.values)),
              !.valid = Append(b.valid, TRUE)]

RECURSIVE append_values(_, _)
\* append_value for each element of a vector, in order
append_values(b, vs) ==
    IF vs = <<>> THEN b ELSE append_values(append_value(b, Head(vs)), Tail(vs))

\* ------------------------------------------------------------------------
\* Messages and the generated appenders
\* ------------------------------------------------------------------------
RECURSIVE field_access(_, _)
field_access(msg, segments) ==
    IF segments = <<>> THEN msg
    ELSE field_access(msg[Head(segments)], Tail(segments))

\* msg.#path_field_name
msg_path(msg, path_field_name) == field_access(msg, path_field_name)

\* the value expression with a slip: the column gets the default of its
\* type, not the value of the message
primitive_value_default(typ, v) ==
    IF typ \in {"str", "std::string::String", "char"} THEN "" ELSE 0

\* `as i64` / `as u64` on a wide integer: the low 64 bits are kept (a wide
\* value is held as [hi, lo], the 64-bit value it is cast to as [lo])
as_64(v) == [lo |-> v.lo]

\* the value expression with a slip: the cast keeps the high 64 bits
primitive_value_high(typ, v) ==
    IF typ \in {"i128", "isize", "u128", "usize"} THEN [lo |-> v.hi] ELSE v

\* the value expression of primitive_builder_components: the wide integers
\* are cast with `as i64` / `as u64`
primitive_value(typ, v) ==
    IF typ \in {"i128", "isize", "u128", "usize"} THEN as_64(v) ELSE v

\* the element expression of primitive_vector_builder_components
primitive_vector_value(typ, v) ==
    IF typ \in {"Vec<i128>", "Vec<isize>", "Vec<u128>", "Vec<usize>"}
    THEN as_64(v) ELSE v

\* the generated struct appender functions of one generator run, by name
StructAppenderFns(code) ==
    {code[s].flat_struct_builder_fn : s \in DOMAIN code}
        \cup {code[s].struct_builder_fn : s \in DOMAIN code}

StructAppenderBody(code, fn) ==
    IF \E s \in DOMAIN code : code[s].flat_struct_builder_fn = fn
    THEN code[CHOOSE s \in DOMAIN code :
                 code[s].flat_struct_builder_fn = fn].flat_struct_builder_appends
    ELSE code[CHOOSE s \in DOMAIN code :
                 code[s].struct_builder_fn = fn].struct_builder_appends

RECURSIVE StructBuilderFn(_, _, _, _)
RECURSIVE struct_builder_append(_, _, _, _)
RECURSIVE struct_builder_appends(_, _, _, _)
RECURSIVE append_elements(_, _, _, _)

\* the struct appender with a slip: the entry of the struct is not closed
StructBuilderFn_unclosed(code, fn, msg, builder) ==
    struct_builder_appends(code, StructAppenderBody(code, fn), msg, builder)

\* the struct appender with a slip: the entry is closed with append(false)
StructBuilderFn_null(code, fn, msg, builder) ==
    LET b == struct_builder_appends(code, StructAppenderBody(code, fn), msg,
                                    builder)
    IN  IF IsPanic(b) THEN PanicB
        ELSE [b EXCEPT !.valid = Append(b.valid, FALSE)]

\* for element in msg.path.iter() { X_StructBuilder(element, struct_builder) }
append_elements(code, fn, elements, builder) ==
    IF elements = <<>> \/ IsPanic(builder) THEN builder
    ELSE append_elements(code, fn, Tail(elements),
                         StructBuilderFn(code, fn, Head(elements), builder))

\* the T of builder.field_builder::<T>(index) in the struct_builder_append
\* fragment of field f
field_builder_type(f) ==
    CASE f.field_type.tag = "Struct" -> "StructBuilder"
      [] f.field_type.tag = "StructArray" -> "LargeListBuilder<dyn>"
      [] f.field_type.tag = "PrimitiveVector" ->
            IF f.typ = "Vec<u8>" \/ f.flat THEN f.builder
            ELSE "LargeListBuilder<dyn>"
      [] OTHER -> f.builder

\* the struct_builder_append fragment of field f, run on a struct builder:
\* it appends to the child at f.index, found with field_builder::<T>(index)
struct_builder_append(code, f, msg, builder) ==
    IF IsPanic(builder) \/ f.index >= Len(builder.children) THEN PanicB
    ELSE
    LET child == builder.children[f.index + 1]
        v == msg_path(msg, f.path_field_name)
        put(c) == IF IsPanic(c) THEN PanicB
                  ELSE [builder EXCEPT !.children[f.index + 1] = c]
    IN  IF child.class /= field_builder_type(f) THEN PanicB
        ELSE
        CASE f.field_type.tag = "Struct" ->
                put(StructBuilderFn(code, f.type_struct_builder_fn_ident, v,
                                    child))
          [] f.field_type.tag = "StructArray" ->
                IF child.values.class /= "StructBuilder" THEN PanicB
                ELSE LET values == append_elements(code,
                                       f.type_struct_builder_fn_ident, v,
                                       child.values)
                     IN  IF IsPanic(values) THEN PanicB
                         ELSE put(list_append([child EXCEPT !.values = values]))
          [] f.field_type.tag = "PrimitiveVector" ->
                IF f.typ = "Vec<u8>"
                THEN put(append_value(child, v))
                ELSE IF f.flat
                THEN put(list_append([child EXCEPT !.values =
                              append_values(child.values,
                                  [j \in 1..Len(v) |->
                                     primitive_vector_value(f.typ, v[j])])]))
                ELSE IF child.values.class
                          /= primitive_vector_item_builder(f.typ) THEN PanicB
                ELSE put(list_append([child EXCEPT !.values =
                              append_values(child.values, v)]))
          [] OTHER ->
                put(append_value(child, primitive_value(f.typ, v)))

\* the fragments of a struct appender function, one after the other
struct_builder_appends(code, fs, msg, builder) ==
    IF fs = <<>> \/ IsPanic(builder) THEN builder
    ELSE struct_builder_appends(code, Tail(fs), msg,
                                struct_builder_append(code, Head(fs), msg,
                                                      builder))

\* X_StructBuilder(msg, builder) / X_FlatStructBuilder(msg, builder): every
\* fragment, then builder.append(true)
StructBuilderFn(code, fn, msg, builder) ==
    LET b == struct_builder_appends(code, StructAppenderBody(code, fn), msg,
                                    builder)
    IN  IF IsPanic(b) THEN PanicB
        ELSE [b EXCEPT !.valid = Append(b.valid, TRUE)]

\* the builder_instantiation fragment of field f.  In flattened mode the
\* generator emits the call X_FlatSchema() without include_self_struct; the
\* element struct is taken without the whole-record column, as the schema
\* compiler takes it for the same field.
builder_instantiation(f) ==
    LET args == IF f.flat THEN <<FALSE>> ELSE <<>>
    IN  CASE f.field_type.tag = "Struct" ->
                StructBuilder_from_fields(CallSchemaFn(f.type_schema_fn_ident, args))
          [] f.field_type.tag = "StructArray" ->
                ListB(f.builder,
                      StructBuilder_from_fields(
                          CallSchemaFn(f.type_schema_fn_ident, args)))
          [] f.field_type.tag = "PrimitiveVector" ->
                IF f.typ = "Vec<u8>" THEN PrimB(f.builder)
                ELSE ListB(f.builder,
                           PrimB(primitive_vector_item_builder(f.typ)))
          [] OTHER -> PrimB(f.builder)

\* the builder_append fragment of field f, run on the column builder
\* self.<field>.as_mut().unwrap()
builder_append(code, f, msg, builder) ==
    IF builder = None \/ IsPanic(builder) THEN PanicB
    ELSE
    LET v == msg_path(msg, f.path_field_name)
    IN  CASE f.field_type.tag = "Struct" ->
                StructBuilderFn(code, f.type_struct_builder_fn_ident, v, builder)
          [] f.field_type.tag = "StructArray" ->
                LET values == append_elements(code, f.type_struct_builder_fn_ident,
                                              v, builder.values)
                IN  IF IsPanic(values) THEN PanicB
                    ELSE list_append([builder EXCEPT !.values = values])
          [] f.field_type.tag = "PrimitiveVector" ->
                IF f.typ = "Vec<u8>" THEN append_value(builder, v)
                ELSE list_append([builder EXCEPT !.values =
                        append_values(builder.values,
                            [j \in 1..Len(v) |->
                               primitive_vector_value(f.typ, v[j])])])
          [] OTHER -> append_value(builder, primitive_value(f.typ, v))

\* ------------------------------------------------------------------------
\* The generated row builder X_RowBuilder
\* ------------------------------------------------------------------------
\* the first match arm of the generated `match field.name().as_str()` that
\* matches name: the position of the component, 0 when no component matches
MatchArm(gen, name) ==
    IF \E j \in 1..Len(gen.fields) : gen.fields[j].field_name = name
    THEN CHOOSE j \in 1..Len(gen.fields) :
            /\ gen.fields[j].field_name = name
            /\ \A i \in 1..(j - 1) : gen.fields[i].field_name /= name
    ELSE 0

RECURSIVE new_loop(_, _, _)
\* the for loop of X_RowBuilder::new from projection position j on
new_loop(gen, this, j) ==
    IF j > Len(this._arrow_fields) THEN this
    ELSE
    LET name == this._arrow_fields[j].name
        a == MatchArm(gen, name)
    IN  new_loop(gen,
            IF a > 0
            THEN [this EXCEPT !.cols[gen.fields[a].builder_field_name] =
                                 builder_instantiation(gen.fields[a])]
            ELSE IF name = "message_struct"
            THEN [this EXCEPT !.message_struct =
                     StructBuilder_from_fields(
                         CallSchemaFn(gen.struct_schema_fn, <<>>))]
            ELSE [this EXCEPT !.log = Append(@, name)],
            j + 1)

\* new with a slip: a builder is made for every field of the schema, not
\* only for the projected ones
new_all(gen, flat, _arrow_fields) ==
    LET made == new_loop(gen,
                    [status |-> "ready", type_name |-> gen.type_name,
                     flat |-> flat, _arrow_fields |-> _arrow_fields,
                     cols |-> [n \in {gen.fields[j].builder_field_name :
                                        j \in 1..Len(gen.fields)} |-> None],
                     message_struct |-> None,
                     log |-> <<>>, ret |-> ""],
                    1)
    IN  [made EXCEPT !.cols =
            [n \in DOMAIN made.cols |->
                builder_instantiation(
                    gen.fields[CHOOSE j \in 1..Len(gen.fields) :
                                  gen.fields[j].builder_field_name = n])]]

\* X_RowBuilder::new(_arrow_fields): every builder None, then one builder
\* per projected field.  log is what the last call wrote with log::error!,
\* ret the Result the last call returned ("" for new and to_arc_arrays,
\* which return none).
new(gen, flat, _arrow_fields) ==
    new_loop(gen,
             [status |-> "ready", type_name |-> gen.type_name, flat |-> flat,
              _arrow_fields |-> _arrow_fields,
              cols |-> [n \in {gen.fields[j].builder_field_name :
                                 j \in 1..Len(gen.fields)} |-> None],
              message_struct |-> None,
              log |-> <<>>, ret |-> ""],
             1)

RECURSIVE add_row_loop(_, _, _, _, _)
\* the for loop of add_row from projection position j on; a panic ends it
add_row_loop(code, gen, this, msg, j) ==
    IF j > Len(this._arrow_fields) \/ this.status = "panicked" THEN this
    ELSE
    LET name == this._arrow_fields[j].name
        a == MatchArm(gen, name)
        panicked == [this EXCEPT !.status = "panicked"]
    IN  add_row_loop(code, gen,
            IF a > 0
            THEN LET n == gen.fields[a].builder_field_name
                     b == builder_append(code, gen.fields[a], msg,
                                         this.cols[n])
                 IN  IF IsPanic(b) THEN panicked
                     ELSE [this EXCEPT !.cols[n] = b]
            ELSE IF name = "message_struct"
            THEN IF this.message_struct = None THEN panicked
                 ELSE LET b == StructBuilderFn(code, gen.struct_builder_fn,
                                               msg, this.message_struct)
                      IN  IF IsPanic(b) THEN panicked
                          ELSE [this EXCEPT !.message_struct = b]
            ELSE [this EXCEPT !.log = Append(@, name)],
            msg, j + 1)

\* add_row with a slip: the arm of an unknown field name panics
add_row_strict(code, gen, this, msg) ==
    LET done == add_row_loop(code, gen, [this EXCEPT !.log = <<>>], msg, 1)
    IN  IF done.status = "panicked" \/ done.log /= <<>>
        THEN [done EXCEPT !.status = "panicked"]
        ELSE [done EXCEPT !.ret = "Ok"]

\* RowBuilder::add_row: returns Ok(()) on every path that returns
add_row(code, gen, this, msg) ==
    LET done == add_row_loop(code, gen, [this EXCEPT !.log = <<>>], msg, 1)
    IN  IF done.status = "panicked" THEN done
        ELSE [done EXCEPT !.ret = "Ok"]

\* a serialized message, and bytes that are no message
serialize(msg) == <<"cdr", msg>>

garbage == <<"garbage">>

\* X::from_serialized_bytes
deserialize(ser_msg) ==
    IF ser_msg[1] = "cdr" THEN [ok |-> TRUE, msg |-> ser_msg[2]]
    ELSE [ok |-> FALSE]

\* add_raw_row with a slip: a deserialization error empties the column
\* builders before it is returned
add_raw_row_clearing(code, gen, this, ser_msg) ==
    LET msg == deserialize(ser_msg)
    IN  IF ~msg.ok
        THEN [this EXCEPT !.ret = "Err",
                          !.cols = [n \in DOMAIN this.cols |->
                                      IF this.cols[n] = None THEN None
                                      ELSE finish_reset(this.cols[n])]]
        ELSE add_row(code, gen, this, msg.msg)

\* RowBuilder::add_raw_row: `?` returns the deserialization error before
\* any builder is touched
add_raw_row(code, gen, this, ser_msg) ==
    LET msg == deserialize(ser_msg)
    IN  IF ~msg.ok THEN [this EXCEPT !.ret = "Err"]
        ELSE add_row(code, gen, this, msg.msg)

RECURSIVE to_arc_arrays_loop(_, _, _, _)
\* the for loop of to_arc_arrays from projection position j on
to_arc_arrays_loop(gen, this, res, j) ==
    IF j > Len(this._arrow_fields) \/ this.status = "panicked"
    THEN [this |-> this, res |-> res]
    ELSE
    LET name == this._arrow_fields[j].name
        a == MatchArm(gen, name)
        panicked == [this EXCEPT !.status = "panicked"]
        n == gen.fields[a].builder_field_name
        b == IF a > 0 THEN this.cols[n] ELSE this.message_struct
    IN  IF a = 0 /\ name /= "message_struct"
        THEN to_arc_arrays_loop(gen, [this EXCEPT !.log = Append(@, name)],
                                res, j + 1)
        ELSE IF b = None \/ IsPanic(finish(b))
        THEN [this |-> panicked, res |-> res]
        ELSE to_arc_arrays_loop(gen,
                 IF a > 0 THEN [this EXCEPT !.cols[n] = finish_reset(b)]
                 ELSE [this EXCEPT !.message_struct = finish_reset(b)],
                 Append(res, finish(b)), j + 1)

\* to_arc_arrays with a slip: the arrays come in the order of the row
\* builder's own fields, message_struct last
to_arc_arrays_own_order(gen, this) ==
    LET IsWhole(f) == f.name = "message_struct"
        IsOther(f) == MatchArm(gen, f.name) = 0 /\ f.name /= "message_struct"
        own == Flatten([a \in 1..Len(gen.fields) |->
                          LET IsArm(f) == MatchArm(gen, f.name) = a
                          IN  SelectSeq(this._arrow_fields, IsArm)])
                 \o SelectSeq(this._arrow_fields, IsWhole)
                 \o SelectSeq(this._arrow_fields, IsOther)
        out == to_arc_arrays_loop(gen,
                   [this EXCEPT !.log = <<>>, !.ret = "",
                                !._arrow_fields = own], <<>>, 1)
    IN  [this |-> [out.this EXCEPT !._arrow_fields = this._arrow_fields],
         res |-> out.res]

\* RowBuilder::to_arc_arrays: the arrays and the row builder it leaves
to_arc_arrays(gen, this) ==
    to_arc_arrays_loop(gen, [this EXCEPT !.log = <<>>, !.ret = ""], <<>>, 1)

\* ------------------------------------------------------------------------
\* The registries the schema compiler is run on
\* ------------------------------------------------------------------------
\* all lists of at most MaxFields field types drawn from types
FieldLists(types) ==
    UNION {[1..n -> types] : n \in 0..MaxFields}

NamedFields(names, typs) ==
    [j \in 1..Len(typs) |-> ROSField(names[j], typs[j])]

\* package p: A refers to B, B refers to C, C is a leaf (an acyclic registry)
FamilyItems ==
    {<<Item("p", "r2r::p::msg", "A", NamedFields(<<"a", "a_b", "x">>, fa)),
       Item("p", "r2r::p::msg", "B", NamedFields(<<"b", "c", "y">>, fb)),
       Item("p", "r2r::p::msg", "C", NamedFields(<<"c", "d", "z">>, fc))>> :
        fa \in FieldLists({"Vec<f32>", "p::msg::B", "Vec<p::msg::B>"}),
        fb \in FieldLists({"u32", "p::msg::C", "Vec<p::msg::C>"}),
        fc \in FieldLists({"std::string::String"})}

\* field types that are neither routed to the type mapper nor the name of a
\* record type of the registry
Unregistered ==
    {"Option<i32>", "Vec<Option<i32>>", "p::msg::Missing",
     "Vec<p::msg::Missing>"}

\* package p: D has one field of any type, E holds a D and an array of D
MapperItems ==
    {<<Item("p", "r2r::p::msg", "D", <<ROSField("v", t)>>),
       Item("p", "r2r::p::msg", "E",
            <<ROSField("e", "p::msg::D"), ROSField("es", "Vec<p::msg::D>")>>)>> :
        t \in MapperArm \cup Unregistered}

\* std_msgs/msg/Header and builtin_interfaces/msg/Time as r2r declares them
HeaderItems ==
    <<Item("builtin_interfaces", "r2r::builtin_interfaces::msg", "Time",
           <<ROSField("sec", "i32"), ROSField("nanosec", "u32")>>),
      Item("std_msgs", "r2r::std_msgs::msg", "Header",
           <<ROSField("stamp", "builtin_interfaces::msg::Time"),
             ROSField("frame_id", "std::string::String")>>)>>

\* sensor_msgs/msg/PointCloud and the record types it is made of
CloudItems ==
    HeaderItems \o
    <<Item("geometry_msgs", "r2r::geometry_msgs::msg", "Point32",
           <<ROSField("x", "f32"), ROSField("y", "f32"),
             ROSField("z", "f32")>>),
      Item("sensor_msgs", "r2r::sensor_msgs::msg", "ChannelFloat32",
           <<ROSField("name", "std::string::String"),
             ROSField("values", "Vec<f32>")>>),
      Item("sensor_msgs", "r2r::sensor_msgs::msg", "PointCloud",
           <<ROSField("header", "std_msgs::msg::Header"),
             ROSField("points", "Vec<geometry_msgs::msg::Point32>"),
             ROSField("channels", "Vec<sensor_msgs::msg::ChannelFloat32>")>>)>>

\* package p with the integers wider than the columnar types: W has them as
\* fields, V holds a W and arrays of them.  The registries: W alone, W and V.
WideItems ==
    {<<Item("p", "r2r::p::msg", "W",
            <<ROSField("i", "i128"), ROSField("u", "u128"),
              ROSField("s", "isize"), ROSField("z", "usize")>>)>> \o vs :
        vs \in {<<>>,
                <<Item("p", "r2r::p::msg", "V",
                       <<ROSField("w", "p::msg::W"),
                         ROSField("vi", "Vec<i128>"),
                         ROSField("vu", "Vec<u128>")>>)>>}}

\* package p with two services: the request types S1::Request and
\* S2::Request are in different modules and share their simple name; M has a
\* field of one of them
ServiceItems ==
    {<<Item("p", "r2r::p::srv::S1", "Request", NamedFields(<<"a", "b">>, f1)),
       Item("p", "r2r::p::srv::S2", "Request", NamedFields(<<"c", "d">>, f2)),
       Item("p", "r2r::p::msg", "M", <<ROSField("r", t)>>)>> :
        f1 \in FieldLists({"u32", "bool"}),
        f2 \in FieldLists({"std::string::String"}),
        t \in {"p::srv::S1::Request", "p::srv::S2::Request"}}

VARIABLES
    row_builders,   \* generated row builder code: [nested, flat], by schema
    rb,             \* the row builder object of the consumer, if any
    pending,        \* messages added since the last to_arc_arrays
    res,            \* what the last to_arc_arrays returned, until the next add
    calls           \* the calls in flight on rb when two callers share it

builderVars == <<row_builders, rb, pending, res, calls>>

vars == <<schemaVars, builderVars>>

NoRowBuilder == [status |-> "none"]

NoRes == [arrays |-> <<>>, of |-> <<>>, called |-> FALSE, prior |-> 0]

NoLookup == [called |-> FALSE]

\* no call in flight
Idle == [at |-> 0]

\* owner: the caller serializes; n: the calls entered so far
NoCalls == [owner |-> TRUE, n |-> 0, add |-> Idle, fin |-> Idle]

\* ------------------------------------------------------------------------
\* build.rs main: discovery, then generation
\* ------------------------------------------------------------------------
InitSchema ==
    /\ items \in FamilyItems \cup MapperItems \cup {HeaderItems}
    /\ structs_by_schema = EmptyMap
    /\ structs_by_type = EmptyMap
    /\ phase = "parsed"
    /\ schema_fns = EmptyMap
    /\ compiled = EmptyMap
    /\ lookup = NoLookup
    /\ row_builders = [nested |-> EmptyMap, flat |-> EmptyMap]
    /\ rb = NoRowBuilder
    /\ pending = <<>>
    /\ res = NoRes
    /\ calls = NoCalls

\* find_structs_by_schema_and_type over the parsed files
FindStructs ==
    /\ phase = "parsed"
    /\ LET maps == find_structs_by_schema_and_type(items)
       IN  /\ structs_by_schema' = maps.by_schema
           /\ structs_by_type' = maps.by_type
    /\ phase' = "discovered"
    /\ UNCHANGED <<items, schema_fns, compiled, lookup, builderVars>>

\* generate_arrow_mappers: the schema functions and the nested row builders
\* are written out; a panic aborts the build and nothing is written
GenerateArrowMappers ==
    /\ phase = "discovered"
    /\ \E fns \in {generate_arrow_mappers(structs_by_schema, structs_by_type)},
          code \in {generate_arrow_rowbuilders(structs_by_schema,
                                              structs_by_type)} :
          IF Panicked(fns) \/ BuilderPanicked(code)
          THEN /\ phase' = "panicked"
               /\ schema_fns' = EmptyMap
               /\ row_builders' = row_builders
          ELSE /\ phase' = "generated"
               /\ schema_fns' = fns
               /\ row_builders' = [row_builders EXCEPT !.nested = code]
    /\ UNCHANGED <<items, structs_by_schema, structs_by_type, compiled, lookup,
                   rb, pending, res, calls>>

\* the field lists the generated schema functions of record type T return
Compiled(T) ==
    [nested |-> X_Schema(T),
     flat |-> flat_arrow_fields(T, FALSE),
     whole |-> flat_arrow_fields(T, TRUE)]

\* the build is run once more on the same registry: generate_arrow_mappers
\* writes the schema functions and the nested row builders anew
Rebuild ==
    /\ phase = "generated"
    /\ compiled = EmptyMap
    /\ compiled' = [T \in DOMAIN structs_by_type |-> Compiled(T)]
    /\ schema_fns' = generate_arrow_mappers(structs_by_schema, structs_by_type)
    /\ row_builders' =
          [row_builders EXCEPT !.nested =
              generate_arrow_rowbuilders(structs_by_schema, structs_by_type)]
    /\ UNCHANGED <<items, structs_by_schema, structs_by_type, phase, lookup,
                   rb, pending, res, calls>>

NextSchema == FindStructs \/ GenerateArrowMappers \/ Rebuild

SpecSchema == InitSchema /\ [][NextSchema]_vars

\* ------------------------------------------------------------------------
\* The library, built: field lists looked up by schema identifier
\* ------------------------------------------------------------------------
\* a schema identifier no registry has
UnknownSchema == "nav_msgs/msg/Odometry"

\* the build of one of the registries has run to its end
InitLookup ==
    /\ items \in MapperItems \cup {HeaderItems, CloudItems}
    /\ LET maps == find_structs_by_schema_and_type(items)
           fns == generate_arrow_mappers(maps.by_schema, maps.by_type)
           code == generate_arrow_rowbuilders(maps.by_schema, maps.by_type)
       IN  /\ ~Panicked(fns)
           /\ ~BuilderPanicked(code)
           /\ structs_by_schema = maps.by_schema
           /\ structs_by_type = maps.by_type
           /\ schema_fns = fns
           /\ row_builders = [nested |-> code, flat |-> EmptyMap]
    /\ phase = "generated"
    /\ compiled = EmptyMap
    /\ lookup = NoLookup
    /\ rb = NoRowBuilder
    /\ pending = <<>>
    /\ res = NoRes
    /\ calls = NoCalls

\* map_ros_schema_to_arrow_fields(ros_schema)
MapRosSchemaToArrowFields ==
    /\ \E ros_schema \in DOMAIN structs_by_schema \cup {UnknownSchema} :
          LET got == map_ros_schema_to_arrow_fields(ros_schema)
          IN  lookup' = [called |-> TRUE, ros_schema |-> ros_schema,
                         flat |-> FALSE, ret |-> "Ok",
                         fields |-> got.fields, log |-> got.log]
    /\ UNCHANGED <<items, structs_by_schema, structs_by_type, phase,
                   schema_fns, compiled, builderVars>>

\* map_ros_schema_to_flat_arrow_fields(ros_schema)
MapRosSchemaToFlatArrowFields ==
    /\ \E ros_schema \in DOMAIN structs_by_schema \cup {UnknownSchema} :
          LET got == map_ros_schema_to_flat_arrow_fields(ros_schema)
          IN  lookup' = [called |-> TRUE, ros_schema |-> ros_schema,
                         flat |-> TRUE, ret |-> "Ok",
                         fields |-> got.fields, log |-> got.log]
    /\ UNCHANGED <<items, structs_by_schema, structs_by_type, phase,
                   schema_fns, compiled, builderVars>>

NextLookup == MapRosSchemaToArrowFields \/ MapRosSchemaToFlatArrowFields

SpecLookup == InitLookup /\ [][NextLookup]_vars

\* the build over a package that has services beside its messages
InitDiscovery ==
    /\ items \in ServiceItems \cup {HeaderItems}
    /\ structs_by_schema = EmptyMap
    /\ structs_by_type = EmptyMap
    /\ phase = "parsed"
    /\ schema_fns = EmptyMap
    /\ compiled = EmptyMap
    /\ lookup = NoLookup
    /\ row_builders = [nested |-> EmptyMap, flat |-> EmptyMap]
    /\ rb = NoRowBuilder
    /\ pending = <<>>
    /\ res = NoRes
    /\ calls = NoCalls

NextDiscovery == FindStructs \/ GenerateArrowMappers

SpecDiscovery == InitDiscovery /\ [][NextDiscovery]_vars

\* ------------------------------------------------------------------------
\* The consumer: one row builder, rows added, batches finished
\* ------------------------------------------------------------------------
\* the messages the consumer receives, by schema name
Time1 == [sec |-> 1, nanosec |-> 2]
\* Time::default() and, with it, Header::default()
Time2 == [sec |-> 0, nanosec |-> 0]
Header1 == [stamp |-> Time1, frame_id |-> "map"]
Header2 == [stamp |-> Time2, frame_id |-> ""]
Point1 == [x |-> 1, y |-> 2, z |-> 3]
Point2 == [x |-> 4, y |-> 5, z |-> 6]
Channel1 == [name |-> "i", values |-> <<7, 8>>]
Channel2 == [name |-> "", values |-> <<>>]
Cloud1 == [header |-> Header1, points |-> <<Point1, Point2>>,
           channels |-> <<>>]
Cloud2 == [header |-> Header2, points |-> <<>>,
           channels |-> <<Channel1, Channel2>>]

\* a 64-bit pattern is four 16-bit limbs, the most significant first; a
\* 128-bit or pointer-sized integer is held as [hi, lo], its high and low
\* 64 bits in two's complement
Zero64 == <<0, 0, 0, 0>>
Ones64 == <<65535, 65535, 65535, 65535>>
WideInt(hi, lo) == [hi |-> hi, lo |-> lo]
\* -5, 9, isize::MIN, usize::MAX: each fits in 64 bits
Wide1 == [i |-> WideInt(Ones64, <<65535, 65535, 65535, 65531>>),
          u |-> WideInt(Zero64, <<0, 0, 0, 9>>),
          s |-> WideInt(Ones64, <<32768, 0, 0, 0>>),
          z |-> WideInt(Zero64, Ones64)]
\* 2^63 + 1 and 2^64 + 2 do not fit in 64 bits
Wide2 == [i |-> WideInt(Zero64, <<32768, 0, 0, 1>>),
          u |-> WideInt(<<0, 0, 0, 1>>, <<0, 0, 0, 2>>),
          s |-> WideInt(Zero64, <<0, 0, 0, 3>>),
          z |-> WideInt(Zero64, Zero64)]
WideVec1 == [w |-> Wide1, vi |-> <<Wide1.i, Wide2.i>>, vu |-> <<>>]
WideVec2 == [w |-> Wide2, vi |-> <<>>, vu |-> <<Wide2.u, Wide1.u>>]

Messages(schema) ==
    CASE schema = "builtin_interfaces/msg/Time" -> {Time1, Time2}
      [] schema = "std_msgs/msg/Header" -> {Header1, Header2}
      [] schema = "geometry_msgs/msg/Point32" -> {Point1, Point2}
      [] schema = "sensor_msgs/msg/ChannelFloat32" -> {Channel1, Channel2}
      [] schema = "sensor_msgs/msg/PointCloud" -> {Cloud1, Cloud2}
      [] schema = "p/msg/W" -> {Wide1, Wide2}
      [] schema = "p/msg/V" -> {WideVec1, WideVec2}

\* the build of the CloudItems registry has run; the flattened row builders
\* of the library are what generate_arrow_flat_rowbuilders generates
Init ==
    /\ items = CloudItems
    /\ LET maps == find_structs_by_schema_and_type(items)
       IN  /\ structs_by_schema = maps.by_schema
           /\ structs_by_type = maps.by_type
           /\ schema_fns = generate_arrow_mappers(maps.by_schema, maps.by_type)
           /\ row_builders =
                [nested |-> generate_arrow_rowbuilders(maps.by_schema,
                                                       maps.by_type),
                 flat |-> generate_arrow_flat_rowbuilders(maps.by_schema,
                                                          maps.by_type)]
    /\ phase = "generated"
    /\ compiled = EmptyMap
    /\ lookup = NoLookup
    /\ rb = NoRowBuilder
    /\ pending = <<>>
    /\ res = NoRes
    /\ calls = NoCalls

\* the generated code of the row builder rb is an instance of
GenOf(schema, flat) ==
    IF flat THEN row_builders.flat[schema] ELSE row_builders.nested[schema]

CodeOf(flat) == IF flat THEN row_builders.flat ELSE row_builders.nested

SchemaOf(type_name) == structs_by_type[type_name].schema_name

\* what a consumer may pass as a projection: the full schema of the mode
\* with or without the whole-record column, the same with a descriptor the
\* schema does not have before or after it, or up to MaxProj descriptors
\* picked from the schema in any order, repeats included
FullProjection(schema, flat, include_msg_struct) ==
    IF flat
    THEN flat_arrow_fields(structs_by_schema[schema].packaged_name,
                           include_msg_struct)
    ELSE arrow_fields(structs_by_schema[schema].packaged_name,
                      include_msg_struct)

StrayField == Field("stray", Scalar("Utf8"), TRUE)

Projections(schema, flat) ==
    LET full == FullProjection(schema, flat, FALSE)
    IN  {FullProjection(schema, flat, inc) : inc \in BOOLEAN}
            \cup {<<StrayField>> \o full, full \o <<StrayField>>}
            \cup UNION {[1..n -> SeqToSet(FullProjection(schema, flat, TRUE))] :
                          n \in 0..MaxProj}

\* the record types the consumer subscribes to, by schema name
Subscribed ==
    {"std_msgs/msg/Header", "sensor_msgs/msg/ChannelFloat32",
     "sensor_msgs/msg/PointCloud", "p/msg/W", "p/msg/V"}
        \cap DOMAIN structs_by_schema

\* ArrowSupport::new_row_builder / new_flat_row_builder
New ==
    /\ phase = "generated"
    /\ rb = NoRowBuilder
    /\ \E schema \in Subscribed, flat \in BOOLEAN :
         \E arrow_fields_ \in Projections(schema, flat) :
            rb' = new(GenOf(schema, flat), flat, arrow_fields_)
    /\ pending' = <<>>
    /\ res' = NoRes
    /\ UNCHANGED <<schemaVars, row_builders, calls>>

\* how the batches before the next one went: 0 no to_arc_arrays yet, 1 only
\* empty batches, 2 some batch had rows
Prior ==
    IF res.called /\ res.of /= <<>> THEN 2
    ELSE IF res.called /\ res.prior < 1 THEN 1
    ELSE res.prior

\* RowBuilder::add_row
AddRow ==
    /\ rb.status = "ready"
    /\ Len(pending) < MaxRows
    /\ \E msg \in Messages(SchemaOf(rb.type_name)) :
         /\ rb' = add_row(CodeOf(rb.flat),
                          GenOf(SchemaOf(rb.type_name), rb.flat), rb, msg)
         /\ pending' = IF rb'.status = "panicked" THEN pending
                       ELSE Append(pending, msg)
    /\ res' = [NoRes EXCEPT !.prior = Prior]
    /\ UNCHANGED <<schemaVars, row_builders, calls>>

\* RowBuilder::add_raw_row
AddRawRow ==
    /\ rb.status = "ready"
    /\ Len(pending) < MaxRows
    /\ \E ser_msg \in {serialize(m) : m \in Messages(SchemaOf(rb.type_name))}
                         \cup {garbage} :
         /\ rb' = add_raw_row(CodeOf(rb.flat),
                              GenOf(SchemaOf(rb.type_name), rb.flat), rb,
                              ser_msg)
         /\ pending' = IF rb'.status = "panicked" \/ rb'.ret = "Err"
                       THEN pending
                       ELSE Append(pending, deserialize(ser_msg).msg)
    /\ res' = [NoRes EXCEPT !.prior = Prior]
    /\ UNCHANGED <<schemaVars, row_builders, calls>>

\* RowBuilder::to_arc_arrays.  of is the messages added since the previous
\* call, prior how the earlier batches of this row builder went.
ToArcArrays ==
    /\ rb.status = "ready"
    /\ \E out \in {to_arc_arrays(GenOf(SchemaOf(rb.type_name), rb.flat), rb)} :
          /\ rb' = out.this
          /\ res' = [arrays |-> out.res, of |-> pending, called |-> TRUE,
                     prior |-> Prior]
    /\ pending' = <<>>
    /\ UNCHANGED <<schemaVars, row_builders, calls>>

Next == New \/ AddRow \/ AddRawRow \/ ToArcArrays

Spec == Init /\ [][Next]_vars

\* the same consumer after the build of a registry with wide integers
InitWide ==
    /\ items \in WideItems
    /\ LET maps == find_structs_by_schema_and_type(items)
       IN  /\ structs_by_schema = maps.by_schema
           /\ structs_by_type = maps.by_type
           /\ schema_fns = generate_arrow_mappers(maps.by_schema, maps.by_type)
           /\ row_builders =
                [nested |-> generate_arrow_rowbuilders(maps.by_schema,
                                                       maps.by_type),
                 flat |-> generate_arrow_flat_rowbuilders(maps.by_schema,
                                                          maps.by_type)]
    /\ phase = "generated"
    /\ compiled = EmptyMap
    /\ lookup = NoLookup
    /\ rb = NoRowBuilder
    /\ pending = <<>>
    /\ res = NoRes
    /\ calls = NoCalls

SpecWide == InitWide /\ [][Next]_vars

\* ------------------------------------------------------------------------
\* One row builder, two callers: add_row and to_arc_arrays step by step
\* ------------------------------------------------------------------------
\* the record types of the shared row builder
SharedTypes == {"std_msgs/msg/Header", "sensor_msgs/msg/ChannelFloat32"}

\* a row builder with a full projection has been constructed; owner says
\* whether the caller hands it to one owner at a time
InitShared ==
    /\ items = CloudItems
    /\ LET maps == find_structs_by_schema_and_type(items)
       IN  /\ structs_by_schema = maps.by_schema
           /\ structs_by_type = maps.by_type
           /\ schema_fns = generate_arrow_mappers(maps.by_schema, maps.by_type)
           /\ row_builders =
                [nested |-> generate_arrow_rowbuilders(maps.by_schema,
                                                       maps.by_type),
                 flat |-> generate_arrow_flat_rowbuilders(maps.by_schema,
                                                          maps.by_type)]
    /\ phase = "generated"
    /\ compiled = EmptyMap
    /\ lookup = NoLookup
    /\ rb \in {new(GenOf(schema, flat), flat,
                    FullProjection(schema, flat, inc)) :
                  schema \in SharedTypes, flat \in BOOLEAN, inc \in BOOLEAN}
    /\ pending = <<>>
    /\ res = NoRes
    /\ calls \in {[NoCalls EXCEPT !.owner = o] : o \in BOOLEAN}

\* a call with no other call in flight, with a slip: always granted
SingleOwner_off(c) == TRUE

\* what `&mut self` and a single owner give a call: no other call in flight
SingleOwner(c) == c.add.at = 0 /\ c.fin.at = 0

\* add_row is entered
BeginAddRow ==
    /\ rb.status = "ready"
    /\ calls.add.at = 0
    /\ calls.owner => SingleOwner(calls)
    /\ calls.n < MaxCalls
    /\ \E msg \in Messages(SchemaOf(rb.type_name)) :
          calls' = [calls EXCEPT !.add = [at |-> 1, msg |-> msg],
                                !.n = @ + 1]
    /\ rb' = [rb EXCEPT !.log = <<>>]
    /\ UNCHANGED <<schemaVars, row_builders, pending, res>>

\* one turn of the for loop of add_row, or its return after the last turn
StepAddRow ==
    /\ rb.status = "ready"
    /\ calls.add.at > 0
    /\ IF calls.add.at > Len(rb._arrow_fields)
       THEN /\ rb' = [rb EXCEPT !.ret = "Ok"]
            /\ pending' = Append(pending, calls.add.msg)
            /\ calls' = [calls EXCEPT !.add = Idle]
       ELSE /\ \E one \in {add_row_loop(CodeOf(rb.flat),
                               GenOf(SchemaOf(rb.type_name), rb.flat),
                               [rb EXCEPT !._arrow_fields =
                                   <<rb._arrow_fields[calls.add.at]>>],
                               calls.add.msg, 1)} :
                  rb' = [one EXCEPT !._arrow_fields = rb._arrow_fields]
            /\ pending' = pending
            /\ calls' = [calls EXCEPT !.add.at = @ + 1]
    /\ UNCHANGED <<schemaVars, row_builders, res>>

\* to_arc_arrays is entered
BeginToArcArrays ==
    /\ rb.status = "ready"
    /\ calls.fin.at = 0
    /\ calls.owner => SingleOwner(calls)
    /\ calls.n < MaxCalls
    /\ calls' = [calls EXCEPT !.fin = [at |-> 1, res |-> <<>>], !.n = @ + 1]
    /\ rb' = [rb EXCEPT !.log = <<>>, !.ret = ""]
    /\ UNCHANGED <<schemaVars, row_builders, pending, res>>

\* one turn of the for loop of to_arc_arrays, or its return after the last
\* turn: of is the messages whose add_row has returned since the last batch
StepToArcArrays ==
    /\ rb.status = "ready"
    /\ calls.fin.at > 0
    /\ IF calls.fin.at > Len(rb._arrow_fields)
       THEN /\ res' = [arrays |-> calls.fin.res, of |-> pending,
                       called |-> TRUE, prior |-> Prior]
            /\ pending' = <<>>
            /\ calls' = [calls EXCEPT !.fin = Idle]
            /\ rb' = rb
       ELSE /\ \E out \in {to_arc_arrays_loop(
                               GenOf(SchemaOf(rb.type_name), rb.flat),
                               [rb EXCEPT !._arrow_fields =
                                   <<rb._arrow_fields[calls.fin.at]>>],
                               calls.fin.res, 1)} :
                  /\ rb' = [out.this EXCEPT !._arrow_fields = rb._arrow_fields]
                  /\ calls' = [calls EXCEPT !.fin.at = @ + 1,
                                            !.fin.res = out.res]
            /\ pending' = pending
            /\ res' = res
    /\ UNCHANGED <<schemaVars, row_builders>>

NextShared ==
    BeginAddRow \/ StepAddRow \/ BeginToArcArrays \/ StepToArcArrays

SpecShared == InitShared /\ [][NextShared]_vars

\* ------------------------------------------------------------------------
\* The record types as declared, for stating the schema laws
\* ------------------------------------------------------------------------
Generated == phase = "generated"

Types == DOMAIN structs_by_type

Declared(T) == structs_by_type[T].fields

IsRecordField(f) ==
    f.native_type \notin MapperArm /\ ~starts_with(f.native_type, "Vec")

IsRecordArrayField(f) ==
    f.native_type \notin MapperArm /\ starts_with(f.native_type, "Vec")

\* the record type a record-typed or array-of-record field refers to
RefType(f) ==
    "r2r::" \o (IF IsRecordField(f) THEN f.native_type
                ELSE vec_element(f.native_type))

RECURSIVE SumSeq(_)
SumSeq(s) == IF s = <<>> THEN 0 ELSE Head(s) + SumSeq(Tail(s))

RECURSIVE Join(_, _)
Join(path, sep) ==
    IF Len(path) = 1 THEN path[1]
    ELSE path[1] \o sep \o Join(Tail(path), sep)

RECURSIVE FlatLeaves(_, _)
\* the fields reached from record type T through record-typed fields, depth
\* first in declaration order, each with the path of field names leading to it
FlatLeaves(T, path) ==
    LET d == Declared(T)
    IN  Flatten([j \in 1..Len(d) |->
            IF IsRecordField(d[j])
            THEN FlatLeaves(RefType(d[j]), Append(path, d[j].name))
            ELSE <<[path |-> Append(path, d[j].name), name |-> d[j].name,
                    native_type |-> d[j].native_type]>>])

RECURSIVE FlatCount(_)
\* 1 for a primitive, array-of-primitive or array-of-record field, the count
\* of the referenced record type for a record-typed field
FlatCount(T) ==
    LET d == Declared(T)
    IN  SumSeq([j \in 1..Len(d) |->
            IF IsRecordField(d[j]) THEN FlatCount(RefType(d[j])) ELSE 1])

HeaderType == "r2r::std_msgs::msg::Header"

ends_with(s, suffix) ==
    Len(s) >= Len(suffix)
    /\ SubSeq(s, Len(s) - Len(suffix) + 1, Len(s)) = suffix

\* ------------------------------------------------------------------------
\* Row builder claims
\* ------------------------------------------------------------------------
\* the schema the row builder rb was generated for, whole-record column
\* included
RbSchema == FullProjection(SchemaOf(rb.type_name), rb.flat, TRUE)

\* a projection: an ordered subset of the schema's descriptors
IsProjection(fs, schema) ==
    /\ \A i \in 1..Len(fs) : fs[i] \in SeqToSet(schema)
    /\ \A i, j \in 1..Len(fs) : i /= j => fs[i].name /= fs[j].name

\* to_arc_arrays has just returned to a consumer that passed a projection
Returned ==
    /\ rb.status = "ready"
    /\ res.called
    /\ IsProjection(rb._arrow_fields, RbSchema)

RECURSIVE ArrayRows(_)
\* the rows of an array, read back: a struct row by child name, a list row
\* as the sequence of its elements
ArrayRows(a) ==
    CASE a.class = "StructArray" ->
            [r \in 1..Len(a.valid) |->
                [n \in {a.data_type.fields[j].name :
                          j \in 1..Len(a.children)} |->
                    LET j == CHOOSE j \in 1..Len(a.children) :
                                a.data_type.fields[j].name = n
                    IN  ArrayRows(a.children[j])[r]]]
      [] a.class = "LargeListArray" ->
            LET values == ArrayRows(a.values)
            IN  [r \in 1..Len(a.valid) |->
                    SubSeq(values, a.offsets[r] + 1, a.offsets[r + 1])]
      [] OTHER -> a.vals

RECURSIVE RowOf(_, _, _)
RECURSIVE CellOf(_, _, _)
\* the row a record of type T is expected to give: by declared field name in
\* nested mode, by flattened name in flattened mode
RowOf(T, flat, v) ==
    IF flat
    THEN LET leaves == FlatLeaves(T, <<>>)
         IN  [n \in {Join(leaves[k].path, "_") : k \in 1..Len(leaves)} |->
                LET leaf == leaves[CHOOSE k \in 1..Len(leaves) :
                                      Join(leaves[k].path, "_") = n]
                IN  CellOf(leaf, TRUE, field_access(v, leaf.path))]
    ELSE LET d == Declared(T)
         IN  [n \in {d[j].name : j \in 1..Len(d)} |->
                LET f == d[CHOOSE j \in 1..Len(d) : d[j].name = n]
                IN  CellOf(f, FALSE, v[n])]

\* the cell a value of declared field f is expected to give
CellOf(f, flat, v) ==
    IF IsRecordArrayField(f)
    THEN [k \in 1..Len(v) |-> RowOf(RefType(f), flat, v[k])]
    ELSE IF IsRecordField(f) THEN RowOf(RefType(f), FALSE, v)
    ELSE v

\* the column the descriptor named name is expected to hold for msgs
ColumnOf(name, msgs) ==
    [r \in 1..Len(msgs) |->
        IF name = "message_struct" THEN RowOf(rb.type_name, FALSE, msgs[r])
        ELSE RowOf(rb.type_name, rb.flat, msgs[r])[name]]

RECURSIVE WellTyped(_)
\* every child array has the type its parent's descriptor gives it
WellTyped(a) ==
    CASE a.class = "StructArray" ->
            /\ Len(a.children) = Len(a.data_type.fields)
            /\ \A j \in 1..Len(a.children) :
                  /\ a.children[j].data_type = a.data_type.fields[j].data_type
                  /\ Len(a.children[j].valid) = Len(a.valid)
                  /\ WellTyped(a.children[j])
      [] a.class = "LargeListArray" ->
            /\ a.values.data_type = a.data_type.item.data_type
            /\ WellTyped(a.values)
      [] OTHER -> TRUE

RECURSIVE Empty(_)
\* a builder and the builders inside it hold nothing
Empty(b) ==
    CASE b = None -> TRUE
      [] b.class = "StructBuilder" ->
            b.valid = <<>> /\ \A j \in 1..Len(b.children) : Empty(b.children[j])
      [] starts_with(b.class, "LargeListBuilder") ->
            b.valid = <<>> /\ b.offsets = <<0>> /\ Empty(b.values)
      [] OTHER -> b.valid = <<>> /\ b.vals = <<>>

\* C1: after exactly K add_row calls on a freshly constructed row builder,
\* to_arc_arrays returns arrays that each have length exactly K, whatever
\* the projection (an ordered subset of the schema) and whatever K >= 0.
C1_RowCountLaw ==
    (Returned /\ res.prior = 0) =>
        \A i \in 1..Len(res.arrays) : ArrayLen(res.arrays[i]) = Len(res.of)

\* two rows added to a fresh row builder of two or more columns, finished
C1_Witness ==
    /\ Returned
    /\ res.prior = 0
    /\ Len(res.of) >= 2
    /\ Len(res.arrays) >= 2

\* C2: to_arc_arrays returns one array per field of the projection, in the
\* order the fields were passed (message_struct where it was put), each
\* holding the column of the field at its position, and no other array.
C2_ProjectionLaw ==
    Returned =>
        /\ Len(res.arrays) = Len(rb._arrow_fields)
        /\ \A i \in 1..Len(res.arrays) :
              /\ res.arrays[i].data_type = rb._arrow_fields[i].data_type
              /\ ArrayRows(res.arrays[i])
                    = ColumnOf(rb._arrow_fields[i].name, res.of)

\* a projection that is not in schema order and leaves a field out, with
\* message_struct ahead of a field, finished with rows in it
C2_Witness ==
    /\ Returned
    /\ res.of /= <<>>
    /\ Len(rb._arrow_fields) = 2
    /\ rb._arrow_fields[1].name = "message_struct"
    /\ rb._arrow_fields[2] = RbSchema[2]
    /\ Len(RbSchema) > 3
    /\ Len(res.arrays) = 2

C4_BatchesPartitionRows ==
    Returned =>
        /\ \A i \in 1..Len(res.arrays) :
              /\ ArrayLen(res.arrays[i]) = Len(res.of)
              /\ ArrayRows(res.arrays[i])
                    = ColumnOf(rb._arrow_fields[i].name, res.of)
        /\ \A n \in DOMAIN rb.cols : Empty(rb.cols[n])
        /\ Empty(rb.message_struct)

\* a batch of two different records finished after an earlier batch that
\* had rows
C4_Witness ==
    /\ Returned
    /\ res.prior = 2
    /\ Len(res.of) = 2
    /\ res.of[1] /= res.of[2]
    /\ Len(res.arrays) >= 2

C6_NestedShape ==
    Generated =>
        /\ \A T \in Types :
              LET s == X_Schema(T)
                  d == Declared(T)
              IN  /\ Len(s) = Len(d)
                  /\ \A j \in 1..Len(d) :
                        /\ s[j].name = d[j].name
                        /\ IsRecordField(d[j]) =>
                              s[j].data_type
                                = Struct(X_Schema(RefType(d[j])))
        /\ HeaderType \in Types =>
              X_Schema(HeaderType)
                = <<Field("stamp",
                          Struct(<<Field("sec", Scalar("Int32"), TRUE),
                                   Field("nanosec", Scalar("UInt32"), TRUE)>>),
                          TRUE),
                    Field("frame_id", Scalar("Utf8"), TRUE)>>

\* a record-typed field whose record type has a record-typed field with
\* fields of its own
C6_Witness ==
    /\ Generated
    /\ \E T \in Types : \E j \in 1..Len(Declared(T)) :
          /\ IsRecordField(Declared(T)[j])
          /\ \E k \in 1..Len(Declared(RefType(Declared(T)[j]))) :
                LET g == Declared(RefType(Declared(T)[j]))[k]
                IN  IsRecordField(g) /\ Len(Declared(RefType(g))) > 0

\* C7: the flattened compilation has FlatCount descriptors and the k-th
\* descriptor is that of the k-th field in depth-first declaration order.
C7_FlatCountLaw ==
    Generated =>
        \A T \in Types :
            LET s == flat_arrow_fields(T, FALSE)
                leaves == FlatLeaves(T, <<>>)
            IN  /\ Len(s) = FlatCount(T)
                /\ Len(leaves) = Len(s)
                /\ \A k \in 1..Len(s) :
                      /\ ends_with(s[k].name, leaves[k].name)
                      /\ IF leaves[k].native_type \in MapperArm
                         THEN s[k] = rust_type_to_arrow_type_token_stream(
                                         leaves[k].native_type, s[k].name, TRUE)
                         ELSE s[k].data_type.k = "LargeList"

\* a record type with a record-typed field that expands to two descriptors
\* or more, next to another field
C7_Witness ==
    /\ Generated
    /\ \E T \in Types :
          /\ Len(Declared(T)) >= 2
          /\ \E j \in 1..Len(Declared(T)) :
                /\ IsRecordField(Declared(T)[j])
                /\ FlatCount(RefType(Declared(T)[j])) >= 2
          /\ Len(flat_arrow_fields(T, FALSE)) > Len(Declared(T))

\* C8 as stated: the flattened compilation of a record type with N declared
\* fields has at least N descriptors.
C8_FlatAtLeastN ==
    Generated =>
        \A T \in Types : Len(flat_arrow_fields(T, FALSE)) >= Len(Declared(T))

\* C8 amended: at least N descriptors when every record-typed field of the
\* record type refers to a record type that flattens to one descriptor or
\* more; a record-typed field whose type flattens to nothing contributes none.
C8_FlatAtLeastN_NonEmpty ==
    Generated =>
        \A T \in Types :
            LET d == Declared(T)
                empties == {j \in 1..Len(d) :
                              /\ IsRecordField(d[j])
                              /\ flat_arrow_fields(RefType(d[j]), FALSE) = <<>>}
            IN  /\ Len(flat_arrow_fields(T, FALSE))
                     >= Len(d) - Cardinality(empties)
                /\ empties = {} =>
                     Len(flat_arrow_fields(T, FALSE)) >= Len(d)

\* a record type with a record-typed field that flattens to something, and
\* a record type with one that flattens to nothing
C8_Witness ==
    /\ Generated
    /\ \E T, U \in Types :
          /\ \E i \in 1..Len(Declared(T)) :
                /\ IsRecordField(Declared(T)[i])
                /\ flat_arrow_fields(RefType(Declared(T)[i]), FALSE) /= <<>>
          /\ \A i \in 1..Len(Declared(T)) :
                IsRecordField(Declared(T)[i]) =>
                    flat_arrow_fields(RefType(Declared(T)[i]), FALSE) /= <<>>
          /\ \E j \in 1..Len(Declared(U)) :
                /\ IsRecordField(Declared(U)[j])
                /\ flat_arrow_fields(RefType(Declared(U)[j]), FALSE) = <<>>

\* C9: the k-th flattened descriptor is named by the path of field names
\* leading to the k-th leaf, joined with '_'; a record-typed field has no
\* descriptor of its own.  Header gives [stamp_sec, stamp_nanosec, frame_id].
C9_FlatNaming ==
    Generated =>
        /\ \A T \in Types :
              LET s == flat_arrow_fields(T, FALSE)
                  leaves == FlatLeaves(T, <<>>)
              IN  [k \in 1..Len(s) |-> s[k].name]
                    = [k \in 1..Len(leaves) |-> Join(leaves[k].path, "_")]
        /\ HeaderType \in Types =>
              flat_arrow_fields(HeaderType, FALSE)
                = <<Field("stamp_sec", Scalar("Int32"), TRUE),
                    Field("stamp_nanosec", Scalar("UInt32"), TRUE),
                    Field("frame_id", Scalar("Utf8"), TRUE)>>

\* a descriptor reached through two nested-record fields
C9_Witness ==
    /\ Generated
    /\ \E T \in Types : \E k \in 1..Len(FlatLeaves(T, <<>>)) :
          /\ Len(FlatLeaves(T, <<>>)[k].path) = 3
          /\ flat_arrow_fields(T, FALSE)[k].name
               = Join(FlatLeaves(T, <<>>)[k].path, "_")

\* C10: an array-of-record field is one large-list-of-struct descriptor in
\* both modes; the element struct is the nested compilation of the element
\* type in nested mode and its flattened compilation without the
\* whole-record column in flattened mode.
C10_ArrayOfRecord ==
    Generated =>
        \A T \in Types :
            LET n == X_Schema(T)
                d == Declared(T)
                s == flat_arrow_fields(T, FALSE)
                leaves == FlatLeaves(T, <<>>)
                list(name, children) ==
                    Field(name,
                          LargeList(Field("item", Struct(children), TRUE)),
                          TRUE)
            IN  /\ \A j \in 1..Len(d) :
                      IsRecordArrayField(d[j]) =>
                          n[j] = list(d[j].name,
                                      X_Schema(RefType(d[j])))
                /\ Len(s) = Len(leaves)
                /\ \A k \in 1..Len(leaves) :
                      IsRecordArrayField(leaves[k]) =>
                          s[k] = list(Join(leaves[k].path, "_"),
                                      flat_arrow_fields(RefType(leaves[k]),
                                                        FALSE))

\* an array-of-record field inside a nested record, and one whose element
\* type has a record-typed field with fields of its own
C10_Witness ==
    /\ Generated
    /\ \E T \in Types : \E k, m \in 1..Len(FlatLeaves(T, <<>>)) :
          LET leaf == FlatLeaves(T, <<>>)[k]
              other == FlatLeaves(T, <<>>)[m]
          IN  /\ IsRecordArrayField(leaf)
              /\ Len(leaf.path) >= 2
              /\ flat_arrow_fields(T, FALSE)[k].data_type.k = "LargeList"
              /\ IsRecordArrayField(other)
              /\ flat_arrow_fields(RefType(other), FALSE)
                   /= X_Schema(RefType(other))

\* ------------------------------------------------------------------------
\* C11: byte blobs and arrays of primitives
\* ------------------------------------------------------------------------
\* the scalar column type of the element of an array-of-primitive type
ElementScalar(native) == scalar_type(vec_element(native))

\* the builder type the row builder generator gives an array-of-primitive
\* column of the mode
ColumnBuilder(native, flat) ==
    rust_field_to_arrow_type_safe_token_stream("v", "v", native,
        FieldType("PrimitiveVector", ""), flat, 0).builder

\* a field of native type native compiled to data type dt: a byte blob is
\* LargeBinary with a large-binary builder as column and as struct child,
\* any other array of primitives a LargeList of the element's scalar type
LeafDistinct(native, dt, flat) ==
    /\ native = "Vec<u8>" =>
          /\ dt = LargeBinary
          /\ dt.k /= "LargeList"
          /\ ColumnBuilder(native, flat) = "LargeBinaryBuilder"
          /\ make_builder(dt).class = "LargeBinaryBuilder"
    /\ native \in PrimitiveVectorArm \ {"Vec<u8>"} =>
          dt = LargeList(Field("item", ElementScalar(native), TRUE))

RECURSIVE NestedDistinct(_, _)
\* fields is the nested compilation of T: every declared field, at every
\* depth, is compiled as LeafDistinct says
NestedDistinct(T, fields) ==
    /\ Len(fields) = Len(Declared(T))
    /\ \A j \in 1..Len(fields) :
          LET f == Declared(T)[j]
              dt == fields[j].data_type
          IN  IF f.native_type \in MapperArm
              THEN LeafDistinct(f.native_type, dt, FALSE)
              ELSE IF IsRecordField(f)
              THEN dt.k = "Struct" /\ NestedDistinct(RefType(f), dt.fields)
              ELSE /\ dt.k = "LargeList"
                   /\ NestedDistinct(RefType(f), dt.item.data_type.fields)

RECURSIVE FlatDistinct(_, _)
\* fields is the flattened compilation of T (no whole-record column)
FlatDistinct(T, fields) ==
    LET leaves == FlatLeaves(T, <<>>)
    IN  /\ Len(fields) = Len(leaves)
        /\ \A j \in 1..Len(fields) :
              LET dt == fields[j].data_type
              IN  IF leaves[j].native_type \in MapperArm
                  THEN LeafDistinct(leaves[j].native_type, dt, TRUE)
                  ELSE /\ dt.k = "LargeList"
                       /\ FlatDistinct(RefType(leaves[j]),
                                       dt.item.data_type.fields)

\* C11: in every completed compilation, in both modes and at every depth, a
\* Vec<u8> field is a LargeBinary column built with a LargeBinaryBuilder,
\* never a list; every other array-of-primitive field is a LargeList whose
\* item has the scalar type of the element.
C11_TypeDistinction ==
    Generated =>
        \A T \in Types :
            /\ NestedDistinct(T, X_Schema(T))
            /\ FlatDistinct(T, flat_arrow_fields(T, FALSE))
            /\ LET whole == flat_arrow_fields(T, TRUE)
               IN  NestedDistinct(T, whole[Len(whole)].data_type.fields)

\* a byte blob compiled at the top of D and, through E, inside a struct and
\* inside a list of structs
C11_Witness ==
    /\ Generated
    /\ "r2r::p::msg::E" \in Types
    /\ Declared("r2r::p::msg::D")[1].native_type = "Vec<u8>"
    /\ X_Schema("r2r::p::msg::D")[1].data_type = LargeBinary
    /\ X_Schema("r2r::p::msg::E")[1].data_type.fields[1].data_type = LargeBinary
    /\ flat_arrow_fields("r2r::p::msg::E", FALSE)[1].name = "e_v"
    /\ flat_arrow_fields("r2r::p::msg::E", FALSE)[1].data_type = LargeBinary

\* ------------------------------------------------------------------------
\* C12: the type mapper over the types routed to it
\* ------------------------------------------------------------------------
\* the build has run to its end or to its abort
Built == phase \in {"generated", "panicked"}

\* a field that is neither routed to the type mapper nor refers to a record
\* type of the registry
IsUnsupportedField(f) ==
    f.native_type \notin MapperArm /\ RefType(f) \notin Types

\* C12: for every field type the schema compiler routes to the type mapper
\* (primitive or array of primitive, Vec<()> included) the mapper returns a
\* column type and does not abort; a field of any other non-record type
\* aborts the compilation.
C12_MapperTotal ==
    Built =>
        /\ \A T \in Types : \A j \in 1..Len(Declared(T)) :
              Declared(T)[j].native_type \in MapperArm =>
                  rust_type_to_arrow_type_token_stream(
                      Declared(T)[j].native_type, Declared(T)[j].name, TRUE)
                    /= PanicTok
        /\ (\E T \in Types : \E j \in 1..Len(Declared(T)) :
                IsUnsupportedField(Declared(T)[j]))
              => phase = "panicked"

RECURSIVE NoNullStruct(_)
\* no struct entry of array a, at any depth, is null
NoNullStruct(a) ==
    CASE a.class = "StructArray" ->
            /\ \A r \in 1..Len(a.valid) : a.valid[r]
            /\ \A j \in 1..Len(a.children) : NoNullStruct(a.children[j])
      [] a.class = "LargeListArray" -> NoNullStruct(a.values)
      [] OTHER -> TRUE

RECURSIVE StructSlots(_)
\* the number of struct entries of array a, at every depth
StructSlots(a) ==
    CASE a.class = "StructArray" ->
            Len(a.valid)
              + SumSeq([j \in 1..Len(a.children) |-> StructSlots(a.children[j])])
      [] a.class = "LargeListArray" -> StructSlots(a.values)
      [] OTHER -> 0

RECURSIVE RecordSlots(_, _)
\* the number of records a value of data type dt holds, itself included
RecordSlots(dt, v) ==
    CASE dt.k = "Struct" ->
            1 + SumSeq([j \in 1..Len(dt.fields) |->
                          RecordSlots(dt.fields[j].data_type,
                                      v[dt.fields[j].name])])
      [] dt.k = "LargeList" ->
            SumSeq([j \in 1..Len(v) |-> RecordSlots(dt.item.data_type, v[j])])
      [] OTHER -> 0

\* C14: after to_arc_arrays every struct array returned (a nested-record
\* column, the whole-record column, the elements of a list-of-struct
\* column, and the structs inside them) has one entry for every record
\* written and none of them null, whatever the values of the children.
C14_StructCompleteness ==
    Returned =>
        \A i \in 1..Len(res.arrays) :
            /\ NoNullStruct(res.arrays[i])
            /\ StructSlots(res.arrays[i])
                 = SumSeq([r \in 1..Len(res.of) |->
                      RecordSlots(res.arrays[i].data_type,
                                  ArrayRows(res.arrays[i])[r])])

\* Header::default() went through a nested row builder projected to the
\* record column stamp and the whole-record column
C14_Witness ==
    /\ Returned
    /\ ~rb.flat
    /\ Header2 \in SeqToSet(res.of)
    /\ Len(res.arrays) = 2
    /\ rb._arrow_fields[1].name = "stamp"
    /\ rb._arrow_fields[2].name = "message_struct"
    /\ res.arrays[1].class = "StructArray"
    /\ res.arrays[2].class = "StructArray"

\* ------------------------------------------------------------------------
\* C15: the values of a projected scalar field
\* ------------------------------------------------------------------------
\* the scalar fields of record type T as the mode names them, each with its
\* logical path in a record of type T
ScalarLeaves(T, flat) ==
    IF flat
    THEN {[name |-> Join(l.path, "_"), path |-> l.path] :
            l \in {l \in SeqToSet(FlatLeaves(T, <<>>)) :
                      l.native_type \in PrimitiveArm}}
    ELSE {[name |-> f.name, path |-> <<f.name>>] :
            f \in {f \in SeqToSet(Declared(T)) :
                      f.native_type \in PrimitiveArm}}

TimeType == "r2r::builtin_interfaces::msg::Time"

\* C15: the array returned for a projected scalar field holds at row i the
\* value the field has, at its logical path, in the i-th record added, and
\* no row is null.  Header records through a flattened builder projected
\* to [stamp_sec, message_struct] give an Int32 array of the sec values and
\* a struct array of as many rows whose first child stamp is the struct of
\* the two fields of the nested compilation of Time.
C15_ScalarValues ==
    Returned =>
        /\ Len(res.arrays) = Len(rb._arrow_fields)
        /\ \A i \in 1..Len(rb._arrow_fields) :
              \A l \in ScalarLeaves(rb.type_name, rb.flat) :
                  l.name = rb._arrow_fields[i].name =>
                      /\ res.arrays[i].class = "Array"
                      /\ res.arrays[i].vals =
                            [r \in 1..Len(res.of) |->
                                field_access(res.of[r], l.path)]
                      /\ res.arrays[i].valid =
                            [r \in 1..Len(res.of) |-> TRUE]
        /\ ( /\ rb.flat
             /\ rb.type_name = HeaderType
             /\ [i \in 1..Len(rb._arrow_fields) |-> rb._arrow_fields[i].name]
                  = <<"stamp_sec", "message_struct">> ) =>
                /\ res.arrays[1].data_type = Scalar("Int32")
                /\ res.arrays[1].vals =
                      [r \in 1..Len(res.of) |-> res.of[r].stamp.sec]
                /\ res.arrays[2].class = "StructArray"
                /\ ArrayLen(res.arrays[2]) = Len(res.of)
                /\ res.arrays[2].data_type.fields[1]
                      = Field("stamp", Struct(X_Schema(TimeType)), TRUE)
                /\ X_Schema(TimeType)
                      = <<Field("sec", Scalar("Int32"), TRUE),
                          Field("nanosec", Scalar("UInt32"), TRUE)>>

\* two Header records with sec 1 and 0 through a flattened builder
\* projected to [stamp_sec, message_struct]
C15_Witness ==
    /\ Returned
    /\ rb.flat
    /\ rb.type_name = HeaderType
    /\ Len(rb._arrow_fields) = 2
    /\ rb._arrow_fields[1].name = "stamp_sec"
    /\ rb._arrow_fields[2].name = "message_struct"
    /\ res.of = <<Header1, Header2>>
    /\ res.arrays[1].vals = <<1, 0>>

\* ------------------------------------------------------------------------
\* C16: an unknown field name in the projection
\* ------------------------------------------------------------------------
\* the names of the descriptors fs, in order
Names(fs) == [i \in 1..Len(fs) |-> fs[i].name]

\* the projected descriptors whose name the row builder's schema has, and
\* those whose name it has not, in projection order
KnownFields(fs) ==
    LET names == SeqToSet(Names(RbSchema))
        IsKnown(f) == f.name \in names
    IN  SelectSeq(fs, IsKnown)

UnknownFields(fs) ==
    LET names == SeqToSet(Names(RbSchema))
        IsUnknown(f) == f.name \notin names
    IN  SelectSeq(fs, IsUnknown)

\* the row builder rb, had the unknown names not been in the projection
Strip(this) ==
    [this EXCEPT !._arrow_fields = KnownFields(this._arrow_fields),
                 !.log = <<>>]

\* the row builder rb has an unknown name in its projection, and the rest
\* of the projection is an ordered subset of the schema
HasUnknown ==
    /\ rb.status = "ready"
    /\ UnknownFields(rb._arrow_fields) /= <<>>
    /\ IsProjection(KnownFields(rb._arrow_fields), RbSchema)

\* C16: with an unknown name in the projection, new, add_row and
\* to_arc_arrays do what they do without it and log the name: construction
\* gives the same builders, add_row returns Ok and leaves every builder as
\* it would be left without the name (one more entry in each recognized
\* projected field), and to_arc_arrays returns the arrays of exactly the
\* recognized projected fields, in their projection order.
C16_UnknownFieldSkipped ==
    HasUnknown =>
        LET gen == GenOf(SchemaOf(rb.type_name), rb.flat)
            code == CodeOf(rb.flat)
            known == KnownFields(rb._arrow_fields)
            unknown == Names(UnknownFields(rb._arrow_fields))
            made == new(gen, rb.flat, rb._arrow_fields)
            out == to_arc_arrays(gen, rb)
            plain == to_arc_arrays(gen, Strip(rb))
        IN  /\ made.status = "ready"
            /\ made.log = unknown
            /\ Strip(made) = new(gen, rb.flat, known)
            /\ \A msg \in Messages(SchemaOf(rb.type_name)) :
                  LET a == add_row(code, gen, rb, msg)
                      b == add_row(code, gen, Strip(rb), msg)
                  IN  /\ a.status = b.status
                      /\ a.status = "ready" =>
                            /\ a.ret = "Ok"
                            /\ a.log = unknown
                            /\ Strip(a) = b
            /\ \A i \in 1..Len(known) :
                  known[i].name /= "message_struct" =>
                      BuilderLen(rb.cols[gen.fields[
                          MatchArm(gen, known[i].name)].builder_field_name])
                        = Len(pending)
            /\ out.this.status = "ready"
            /\ out.this.log = unknown
            /\ out.res = plain.res
            /\ Strip(out.this) = plain.this
            /\ Len(out.res) = Len(known)
            /\ \A i \in 1..Len(known) :
                  /\ out.res[i].data_type = known[i].data_type
                  /\ ArrayLen(out.res[i]) = Len(pending)
            /\ res.called =>
                  /\ Len(res.arrays) = Len(known)
                  /\ \A i \in 1..Len(known) :
                        /\ res.arrays[i].data_type = known[i].data_type
                        /\ ArrayRows(res.arrays[i])
                             = ColumnOf(known[i].name, res.of)

\* a nested Header row builder whose projection starts with an unknown
\* name has taken two rows and returned the arrays of the two known fields
C16_Witness ==
    /\ HasUnknown
    /\ ~rb.flat
    /\ rb.type_name = HeaderType
    /\ rb._arrow_fields[1] = StrayField
    /\ rb.log = <<"stray">>
    /\ res.called
    /\ Len(res.of) = 2
    /\ Len(res.arrays) = 2
    /\ Len(rb._arrow_fields) = 3

\* ------------------------------------------------------------------------
\* C17: add_raw_row
\* ------------------------------------------------------------------------
\* the byte slices a consumer may hand to add_raw_row of the row builder rb
RawInputs ==
    {serialize(m) : m \in Messages(SchemaOf(rb.type_name))} \cup {garbage}

\* C17: in every state of a row builder, add_raw_row of bytes that do not
\* deserialize returns an error and leaves every column builder and the
\* whole-record builder as they were; add_raw_row of bytes that deserialize
\* leaves the row builder as add_row of the deserialized record leaves it.
\* A row builder whose last call was such a failure holds one entry per
\* record added before it in every recognized projected column.
C17_AddRawRow ==
    rb.status = "ready" =>
        LET gen == GenOf(SchemaOf(rb.type_name), rb.flat)
            code == CodeOf(rb.flat)
        IN  /\ \A ser_msg \in RawInputs :
                  LET got == add_raw_row(code, gen, rb, ser_msg)
                      msg == deserialize(ser_msg)
                  IN  IF msg.ok
                      THEN got = add_row(code, gen, rb, msg.msg)
                      ELSE /\ got.ret = "Err"
                           /\ got.status = "ready"
                           /\ got.cols = rb.cols
                           /\ got.message_struct = rb.message_struct
            /\ (rb.ret = "Err" /\ IsProjection(rb._arrow_fields, RbSchema)) =>
                  \A i \in 1..Len(rb._arrow_fields) :
                      LET a == MatchArm(gen, rb._arrow_fields[i].name)
                      IN  BuilderLen(IF a > 0
                                     THEN rb.cols[gen.fields[a].builder_field_name]
                                     ELSE rb.message_struct)
                            = Len(pending)

\* bytes that do not deserialize were handed to a row builder that holds
\* one row: the call returned an error and the row is still there
C17_Witness ==
    /\ rb.status = "ready"
    /\ rb.ret = "Err"
    /\ IsProjection(rb._arrow_fields, RbSchema)
    /\ Len(pending) = 1
    /\ rb.message_struct /= None
    /\ BuilderLen(rb.message_struct) = 1
    /\ \E n \in DOMAIN rb.cols :
          rb.cols[n] /= None /\ BuilderLen(rb.cols[n]) = 1

\* ------------------------------------------------------------------------
\* C18: a value that cannot be appended
\* ------------------------------------------------------------------------
\* the builder add_row writes for the projected name, in row builder this
ProjectedBuilder(gen, this, name) ==
    LET a == MatchArm(gen, name)
    IN  IF a > 0 THEN this.cols[gen.fields[a].builder_field_name]
        ELSE this.message_struct

\* C18: add_row returns in every case; when the value of some projected
\* field cannot be appended it returns an error, and the builders of the
\* fields before it in the projection keep the entry the call appended;
\* when it returns Ok every projected field has got its entry.
C18_AppendFailureIsError ==
    (rb.status = "ready" /\ IsProjection(rb._arrow_fields, RbSchema)) =>
        LET gen == GenOf(SchemaOf(rb.type_name), rb.flat)
            code == CodeOf(rb.flat)
            fs == rb._arrow_fields
        IN  \A msg \in Messages(SchemaOf(rb.type_name)) :
                LET a == add_row(code, gen, rb, msg)
                    Grown(i) ==
                        BuilderLen(ProjectedBuilder(gen, a, fs[i].name))
                          = BuilderLen(ProjectedBuilder(gen, rb, fs[i].name)) + 1
                IN  /\ a.status = "ready"
                    /\ a.ret \in {"Ok", "Err"}
                    /\ a.ret = "Ok" => \A i \in 1..Len(fs) : Grown(i)
                    /\ a.ret = "Err" =>
                          \E k \in 1..Len(fs) :
                              /\ ~Grown(k)
                              /\ \A i \in 1..(k - 1) : Grown(i)

\* ------------------------------------------------------------------------
\* C19: a record type that is not in the registry
\* ------------------------------------------------------------------------
\* a field whose record type, or whose element's record type, is not a
\* record type of the registry
IsDangling(f) ==
    /\ f.native_type \notin MapperArm
    /\ RefType(f) \notin Types

RECURSIVE MeetsDangling(_)
\* the traversal of record type T meets a dangling field at some depth
MeetsDangling(T) ==
    \E j \in 1..Len(Declared(T)) :
        LET f == Declared(T)[j]
        IN  \/ IsDangling(f)
            \/ /\ f.native_type \notin MapperArm
               /\ RefType(f) \in Types
               /\ MeetsDangling(RefType(f))

\* C19: when the traversal of some record type meets, at any depth and
\* directly or as the element of an array, a record type that is not in
\* the registry, the compilation aborts in nested and in flattened mode
\* alike and the build leaves no schema function and no row builder.
C19_UnregisteredAborts ==
    (Built /\ \E T \in Types : MeetsDangling(T)) =>
        /\ phase = "panicked"
        /\ schema_fns = EmptyMap
        /\ row_builders.nested = EmptyMap
        /\ Panicked(generate_arrow_schema(structs_by_schema, structs_by_type))
        /\ Panicked(generate_flat_arrow_schema(structs_by_schema,
                                               structs_by_type))
        /\ \A T \in Types :
              MeetsDangling(T) =>
                  PanicTok \in SeqToSet(generate_arrow_schema_fields(
                      structs_by_type[T].schema_name, structs_by_schema,
                      structs_by_type, "$", "", TRUE))

\* D has an array of an unregistered record type; E meets it one level
\* down; the build has aborted
C19_Witness ==
    /\ phase = "panicked"
    /\ "r2r::p::msg::D" \in Types
    /\ Declared("r2r::p::msg::D")[1].native_type = "Vec<p::msg::Missing>"
    /\ MeetsDangling("r2r::p::msg::E")
    /\ ~IsDangling(Declared("r2r::p::msg::E")[1])
    /\ schema_fns = EmptyMap

\* ------------------------------------------------------------------------
\* C20: no error is absorbed
\* ------------------------------------------------------------------------
\* C20: a lookup of a schema identifier that is absent from the registry
\* is surfaced to the caller as an error or an abort: it returns no field
\* list in place of the missing one, and it is not merely logged.  A lookup
\* of a registered identifier returns the compilation of its record type
\* and logs nothing.
C20_NoErrorAbsorbed ==
    lookup.called =>
        IF lookup.ros_schema \in DOMAIN structs_by_schema
        THEN /\ lookup.ret = "Ok"
             /\ lookup.log = <<>>
             /\ lookup.fields =
                   (IF lookup.flat
                    THEN flat_arrow_fields(
                             structs_by_schema[lookup.ros_schema].packaged_name,
                             TRUE)
                    ELSE X_Schema(
                             structs_by_schema[lookup.ros_schema].packaged_name))
        ELSE /\ lookup.ret \in {"Err", "panicked"}
             /\ lookup.fields = <<>>

\* ------------------------------------------------------------------------
\* C21: a row builder has no lock of its own
\* ------------------------------------------------------------------------
\* the arrays of the last batch are not all of one length
SplitBatch ==
    /\ res.called
    /\ \E i, j \in 1..Len(res.arrays) :
          ArrayLen(res.arrays[i]) /= ArrayLen(res.arrays[j])

\* C21: when every call on the row builder goes through a single owner,
\* the columns of every batch have one length, that of the records added
\* since the last batch; add_row and to_arc_arrays take no lock and work
\* field by field, so without the single owner a batch whose columns have
\* different lengths (a record split across two batches) can be reached.
C21_SingleOwner ==
    (calls.owner /\ res.called) =>
        /\ ~SplitBatch
        /\ \A i \in 1..Len(res.arrays) :
              ArrayLen(res.arrays[i]) = Len(res.of)

\* no single owner: to_arc_arrays ran between two fields of an add_row and
\* returned a batch with columns of different lengths
C21_Witness ==
    /\ ~calls.owner
    /\ rb.status = "ready"
    /\ SplitBatch
    /\ Len(res.arrays) = Len(rb._arrow_fields)

\* ------------------------------------------------------------------------
\* C22: the live builders are those of the projection
\* ------------------------------------------------------------------------
\* the names the projection of rb lists
ProjectedNames == {rb._arrow_fields[i].name : i \in 1..Len(rb._arrow_fields)}

\* C22: in every state of a row builder, after construction and after any
\* add_row and to_arc_arrays, the column builder of a schema field is
\* allocated exactly when the projection names the field, and the
\* whole-record builder exactly when it names message_struct; so add_row
\* and to_arc_arrays leave the builders of the other fields unallocated, and
\* every builder they dereference (that of a projected name with a match
\* arm) is allocated.
C22_LiveBuilders ==
    rb.status = "ready" =>
        LET gen == GenOf(SchemaOf(rb.type_name), rb.flat)
            names == ProjectedNames
        IN  /\ \A j \in 1..Len(gen.fields) :
                  (rb.cols[gen.fields[j].builder_field_name] /= None)
                      <=> (gen.fields[j].field_name \in names)
            /\ (rb.message_struct /= None) <=> ("message_struct" \in names)
            /\ \A n \in names :
                  (MatchArm(gen, n) > 0 \/ n = "message_struct") =>
                      ProjectedBuilder(gen, rb, n) /= None

\* a row builder projected to one of several fields has taken a row and
\* returned a batch: one builder allocated, another not, no whole-record
\* builder
C22_Witness ==
    /\ rb.status = "ready"
    /\ res.called
    /\ Len(res.of) >= 1
    /\ Len(rb._arrow_fields) = 1
    /\ rb.message_struct = None
    /\ \E n, m \in DOMAIN rb.cols : rb.cols[n] /= None /\ rb.cols[m] = None

\* ------------------------------------------------------------------------
\* C23: the child slots of the struct appender
\* ------------------------------------------------------------------------
\* the components the row builder generator makes for record type T
Components(T, flat) ==
    generate_arrow_schema_typesafe_parser_components(
        structs_by_type[T].schema_name, structs_by_schema, structs_by_type,
        "", "", [fields |-> <<>>, index |-> 0], flat).fields

\* component i (counted from 0) appends to child slot i and is the
\* component of descriptor i of schema
SlotsFollow(components, schema) ==
    /\ Len(components) = Len(schema)
    /\ \A i \in 1..Len(components) :
          /\ components[i].index = i - 1
          /\ components[i].field_name = schema[i].name
    /\ {components[i].index : i \in 1..Len(components)}
          = 0..(Len(schema) - 1)

\* C23: the struct appender of a record type uses child slot i for the
\* i-th descriptor of the compiled schema of its mode: one slot per
\* declared field in nested mode, one per flattened descriptor in
\* flattened mode, the counter running on through spliced records; the
\* slots used are exactly 0..M-1.
C23_ChildSlots ==
    Generated =>
        \A T \in Types :
            LET nested == row_builders.nested[structs_by_type[T].schema_name]
                              .struct_builder_appends
            IN  /\ SlotsFollow(nested, X_Schema(T))
                /\ Len(nested) = Len(Declared(T))
                /\ SlotsFollow(Components(T, TRUE), flat_arrow_fields(T, FALSE))

\* a record type with a field after a record-typed field that splices two
\* descriptors or more: the field's slot is not its declared position
C23_Witness ==
    /\ Generated
    /\ \E T \in Types :
          LET d == Declared(T)
              c == Components(T, TRUE)
          IN  /\ Len(d) >= 2
              /\ IsRecordField(d[1])
              /\ ~IsRecordField(d[Len(d)])
              /\ FlatCount(RefType(d[1])) >= 2
              /\ c[Len(c)].field_name = d[Len(d)].name
              /\ c[Len(c)].index > Len(d) - 1

\* ------------------------------------------------------------------------
\* C24: the whole-record column of a flattened row builder against the
\* columns of a nested row builder
\* ------------------------------------------------------------------------
RECURSIVE AddRows(_, _, _, _)
\* add_row for each of msgs, in order
AddRows(code, gen, this, msgs) ==
    IF msgs = <<>> THEN this
    ELSE AddRows(code, gen, add_row(code, gen, this, Head(msgs)), Tail(msgs))

\* the columns a nested row builder with the full projection builds from
\* msgs, as rows by column name
NestedColumns(schema, msgs) ==
    LET gen == GenOf(schema, FALSE)
        full == FullProjection(schema, FALSE, FALSE)
        this == AddRows(CodeOf(FALSE), gen, new(gen, FALSE, full), msgs)
        out == to_arc_arrays(gen, this)
    IN  [ok |-> out.this.status = "ready" /\ Len(out.res) = Len(full),
         names |-> Names(full),
         rows |-> [j \in 1..Len(out.res) |-> ArrayRows(out.res[j])]]

\* a flattened row builder holds the whole-record column and rows
WholeRecordBuilt ==
    /\ rb.status = "ready"
    /\ rb.flat
    /\ rb.message_struct /= None
    /\ IsProjection(rb._arrow_fields, RbSchema)

WholeRecordAsNested ==
    LET nested == NestedColumns(SchemaOf(rb.type_name), pending)
        whole == finish(rb.message_struct)
    IN  /\ nested.ok
        /\ whole.class = "StructArray"
        /\ ArrayLen(whole) = Len(pending)
        /\ Len(whole.children) = Len(nested.names)
        /\ \A j \in 1..Len(nested.names), r \in 1..Len(pending) :
              ArrayRows(whole)[r][nested.names[j]] = nested.rows[j][r]

\* C24: the whole-record column a flattened row builder has built holds, for
\* every row and every child at every depth, the values the columns of a
\* nested row builder with the full projection hold for the same records
C24_WholeRecordEqualsNested == WholeRecordBuilt => WholeRecordAsNested


\* ------------------------------------------------------------------------
\* C25: integers wider than 64 bits in 64-bit columns
\* ------------------------------------------------------------------------
SignedWide == {"i128", "isize"}
UnsignedWide == {"u128", "usize"}
WideScalars == SignedWide \cup UnsignedWide
WideVectors == {"Vec<" \o t \o ">" : t \in WideScalars}

\* the 64-bit columnar type of the same signedness
Narrow64(t) == Scalar(IF t \in SignedWide THEN "Int64" ELSE "UInt64")

\* the number a 64-bit column value x of type dt stands for, as a wide
\* integer: sign-extended when dt is signed, zero-extended when not
ReadBack(dt, x) ==
    WideInt(IF dt = Scalar("Int64") /\ x.lo[1] >= 32768 THEN Ones64
            ELSE Zero64, x.lo)

\* the wide integer v is in the range of the 64-bit type dt
FitsIn(dt, v) == ReadBack(dt, [lo |-> v.lo]) = v

\* x, stored in a column of type dt for the wide integer v of type t, is v
\* modulo 2^64, and v itself when v fits
NarrowedValue(t, dt, x, v) ==
    /\ dt = Narrow64(t)
    /\ x = [lo |-> v.lo]
    /\ FitsIn(dt, v) => ReadBack(dt, x) = v

RECURSIVE NarrowedStruct(_, _, _, _)
\* row r of array a, built for the value v of a field of type native_type:
\* a wide integer, an array of wide integers, or a record with such fields
NarrowedCell(native_type, a, r, v) ==
    IF native_type \in WideScalars
    THEN /\ a.class = "Array"
         /\ NarrowedValue(native_type, a.data_type, a.vals[r], v)
    ELSE IF native_type \in WideVectors
    THEN /\ a.class = "LargeListArray"
         /\ a.offsets[r + 1] - a.offsets[r] = Len(v)
         /\ \A k \in 1..Len(v) :
               NarrowedValue(vec_element(native_type),
                             a.values.data_type,
                             a.values.vals[a.offsets[r] + k], v[k])
    ELSE IF native_type \notin MapperArm /\ ~starts_with(native_type, "Vec")
    THEN NarrowedStruct("r2r::" \o native_type, a, r, v)
    ELSE TRUE

\* row r of the struct array a built for the record v of type T: its wide
\* integer fields, at every depth
NarrowedStruct(T, a, r, v) ==
    /\ a.class = "StructArray"
    /\ Len(a.children) = Len(Declared(T))
    /\ \A j \in 1..Len(Declared(T)) :
          LET d == Declared(T)[j]
          IN  d.native_type \notin WideVectors =>
                 NarrowedCell(d.native_type, a.children[j], r, v[d.name])

\* the column projected under name holds row r narrowed from record v
NarrowedColumn(name, r, v) ==
    LET gen == GenOf(SchemaOf(rb.type_name), rb.flat)
        a == finish(ProjectedBuilder(gen, rb, name))
    IN  /\ ArrayLen(a) = Len(pending)
        /\ IF name = "message_struct"
           THEN NarrowedStruct(rb.type_name, a, r, v)
           ELSE LET f == gen.fields[MatchArm(gen, name)]
                    x == msg_path(v, f.path_field_name)
                IN  IF f.field_type.tag = "Struct"
                    THEN NarrowedStruct(f.typ, a, r, x)
                    ELSE NarrowedCell(f.typ, a, r, x)

\* C25: a 128-bit or pointer-sized integer is stored in the 64-bit column of
\* its signedness as its value modulo 2^64, which is the value itself when it
\* fits in 64 bits, and no add_row or to_arc_arrays fails on it
C25_Narrowing ==
    /\ rb.status /= "panicked"
    /\ (rb.status = "ready" /\ IsProjection(rb._arrow_fields, RbSchema)) =>
          \A j \in 1..Len(rb._arrow_fields), r \in 1..Len(pending) :
             NarrowedColumn(rb._arrow_fields[j].name, r, pending[r])

\* a column holds a signed integer that does not fit, narrowed
C25_Witness ==
    /\ rb.status = "ready"
    /\ rb.type_name = "r2r::p::msg::W"
    /\ IsProjection(rb._arrow_fields, RbSchema)
    /\ \E j \in 1..Len(rb._arrow_fields) : rb._arrow_fields[j].name = "i"
    /\ \E r \in 1..Len(pending) :
          /\ pending[r] = Wide2
          /\ ~FitsIn(Scalar("Int64"), pending[r].i)
          /\ finish(rb.cols["i"]).vals[r] = [lo |-> <<32768, 0, 0, 1>>]

\* ------------------------------------------------------------------------
\* C26: the child builder a struct appender asks for
\* ------------------------------------------------------------------------
\* the struct builder the generated code makes for record type T of the
\* mode: StructBuilder::from_fields of X_Schema() or X_FlatSchema(false)
StructBuilderOf(T, flat) ==
    StructBuilder_from_fields(IF flat THEN flat_arrow_fields(T, FALSE)
                              ELSE X_Schema(T))

\* the child at the slot of component f is of the kind f asks for
ChildAsRequested(f, builder) ==
    /\ f.index < Len(builder.children)
    /\ LET child == builder.children[f.index + 1]
       IN  /\ child.class = field_builder_type(f)
           /\ f.field_type.tag = "StructArray" =>
                 child.values.class = "StructBuilder"
           /\ (f.field_type.tag = "PrimitiveVector" /\ f.typ /= "Vec<u8>") =>
                 child.values.class = primitive_vector_item_builder(f.typ)

\* C26: at every child position of the struct builder of every record type,
\* in nested and in flattened mode, the struct appender asks for the kind
\* of builder the struct builder made from the compiled schema
C26_ChildKinds ==
    Generated =>
        \A T \in Types, flat \in BOOLEAN :
            \A f \in SeqToSet(Components(T, flat)) :
                ChildAsRequested(f, StructBuilderOf(T, flat))

\* ------------------------------------------------------------------------
\* C27: struct builders and their children
\* ------------------------------------------------------------------------
RECURSIVE StructsBalanced(_)
\* every struct builder in b, b included, has children of its own length
StructsBalanced(b) ==
    CASE b.class = "StructBuilder" ->
            \A j \in 1..Len(b.children) :
                /\ BuilderLen(b.children[j]) = BuilderLen(b)
                /\ StructsBalanced(b.children[j])
      [] starts_with(b.class, "LargeListBuilder") -> StructsBalanced(b.values)
      [] OTHER -> TRUE

\* the builders of the row builder rb: its columns and the whole-record column
BuildersOf(this) ==
    {this.cols[c] : c \in DOMAIN this.cols} \cup {this.message_struct}

\* C27: after the add_row calls made so far, every struct builder of the row
\* builder (a record column, the whole-record column, the element builder of
\* an array-of-records column), at every depth, has children of its own length
C27_StructChildren ==
    rb.status = "ready" => \A b \in BuildersOf(rb) : StructsBalanced(b)

\* two rows are in; an array-of-records column holds elements, whose number
\* is not the number of rows, and the whole-record column is built too
C27_Witness ==
    /\ rb.status = "ready"
    /\ Len(pending) = 2
    /\ rb.message_struct /= None
    /\ BuilderLen(rb.message_struct) = 2
    /\ \E b \in BuildersOf(rb) :
          /\ starts_with(b.class, "LargeListBuilder")
          /\ b.values.class = "StructBuilder"
          /\ BuilderLen(b.values) > 0
          /\ BuilderLen(b.values) /= BuilderLen(b)

\* ------------------------------------------------------------------------
\* C28: one entry per add_row, whatever the projection
\* ------------------------------------------------------------------------
\* C28: every allocated builder holds one entry per add_row made since the
\* last batch, and the arrays of a batch all have the length of the batch,
\* also for a projection that lists a field name more than once
C28_OneEntryPerRow ==
    rb.status = "ready" =>
        /\ \A b \in BuildersOf(rb) \ {None} : BuilderLen(b) = Len(pending)
        /\ res.called =>
              \A i \in 1..Len(res.arrays) :
                  ArrayLen(res.arrays[i]) = Len(res.of)

\* ------------------------------------------------------------------------
\* C29: the names of a flattened schema
\* ------------------------------------------------------------------------
\* no name occurs twice in the descriptors fs
DistinctNames(fs) ==
    \A i, j \in 1..Len(fs) : i /= j => fs[i].name /= fs[j].name

\* C29: the descriptors of the flattened schema of every record type have
\* pairwise distinct names (the registries are acyclic and no record type
\* declares a field name twice)
C29_FlatNamesDistinct ==
    Generated =>
        /\ \A T \in Types : DistinctNames(Declared(T))
        /\ \A T \in Types : DistinctNames(flat_arrow_fields(T, TRUE))

\* ------------------------------------------------------------------------
\* C30: the two maps of the registry
\* ------------------------------------------------------------------------
\* the names of the flattened schema of T, from the declarations of the
\* record types its fields refer to
SplicedNames(T) ==
    LET leaves == FlatLeaves(T, <<>>)
    IN  [k \in 1..Len(leaves) |-> Join(leaves[k].path, "_")]

\* C30: after discovery every record type registered under its type name is
\* what the lookup of its own schema identifier returns, the two maps hold
\* the same record types, and the flattened schema of a record type has the
\* fields of the record types its fields refer to
C30_SameRecordTypes ==
    phase /= "parsed" =>
        /\ \A t \in DOMAIN structs_by_type :
              LET s == structs_by_type[t].schema_name
              IN  /\ s \in DOMAIN structs_by_schema
                  /\ structs_by_schema[s] = structs_by_type[t]
        /\ {structs_by_schema[s] : s \in DOMAIN structs_by_schema}
              = {structs_by_type[t] : t \in DOMAIN structs_by_type}
        /\ Generated =>
              \A T \in Types :
                  Names(flat_arrow_fields(T, FALSE)) = SplicedNames(T)
====
